---- MODULE Spec2Model ----
(***************************************************************************)
(* A model of the FatFs driver in src/source/ff.c (the configuration with  *)
(* file locking, LFN, a private sector buffer per file, no virtual         *)
(* partition).  The volume is a small FAT12 volume: every operator below   *)
(* is a transcription of the C function of the same name; loops are        *)
(* RECURSIVE operators.  A C function that changes the volume takes the    *)
(* "world" w = [disk, fs, io, fail] and returns the new world together     *)
(* with its result; io counts the device calls of the running operation    *)
(* and fail says which of them the device fails: k in fail fails call      *)
(* number k, -k in fail fails call number k if it is a disk_write.         *)
(* The result of a call is bound to a name by                              *)
(*     CHOOSE r \in { body : name \in { call } } : TRUE                     *)
(* which evaluates the call once and then the body with the name bound.    *)
(*                                                                         *)
(* Scaling.  A sector has SS bytes; FAT bytes and data bytes are bytes.    *)
(* A directory entry has SZDIRE cells: name, attribute, start cluster and  *)
(* size (an LFN entry: ordinal, attribute, checksum, one name unit); each  *)
(* multi-byte field of the real 32-byte entry is one cell here.            *)
(***************************************************************************)
EXTENDS Integers, Sequences, FiniteSets, TLC

VARIABLES disk,     \* the block device: sector number -> sector contents
          fs,       \* the FATFS object (window, allocation hints, mount id)
          Files,    \* the open-file registry Files[FF_FS_LOCK]
          fil,      \* the caller's FIL objects
          ret,      \* what the last public call returned
          model,    \* reference contents of each path (what a reader must see)
          FatFs,    \* FatFs[0]: the registered FATFS object (0 is NULL)
          Fsid      \* the mount ID counter, a 16-bit word

vars == <<disk, fs, Files, fil, ret, model, FatFs, Fsid>>

(*------------------------- volume geometry -------------------------------*)
SS == 8                 \* SS(fs): bytes per sector
CSIZE == 2              \* fs->csize: sectors per cluster
N_FATENT == 6           \* fs->n_fatent: clusters 2..5
N_FATS == 2             \* fs->n_fats
N_ROOTDIR == 4          \* fs->n_rootdir
SZDIRE == 4             \* cells per directory entry
VOLBASE == 0            \* fs->volbase
FATBASE == 1            \* fs->fatbase = volbase + reserved sectors
FSIZE == ((N_FATENT * 3) \div 2 + (N_FATENT % 2) + (SS - 1)) \div SS
DIRBASE == FATBASE + N_FATS * FSIZE
DATABASE == DIRBASE + N_ROOTDIR \div (SS \div SZDIRE)
NSECT == DATABASE + (N_FATENT - 2) * CSIZE
BCS == CSIZE * SS       \* bytes per cluster

FS_FAT12 == 1
FS_FAT16 == 2
FS_FAT32 == 3
DISK_ERROR == 2147483647        \* the all-ones word (0xFFFFFFFF in the code)
MAX_DIR == 2097152
FF_FS_LOCK == 2

\* unsigned arithmetic on machine words; the word of the model is 31 bits
\* wide, so that the all-ones word is the largest integer TLC can hold
USub(a, b) == IF a >= b THEN a - b ELSE ((a - b) + DISK_ERROR) + 1
UAdd(a, b) == IF a > DISK_ERROR - b THEN (a - (DISK_ERROR - b)) - 1 ELSE a + b
Min(a, b) == IF a < b THEN a ELSE b
Max(a, b) == IF a > b THEN a ELSE b

ZeroSect == [i \in 0..(SS - 1) |-> 0]

(*------------------------- the block device ------------------------------*)
\* disk_write of n consecutive sectors (bufs[1..n]) starting at sect
disk_write(w, bufs, sect) ==
    LET n == w.io + 1 IN
    IF n \in w.fail \/ (0 - n) \in w.fail \/ sect < 0 \/ sect + Len(bufs) > NSECT
    THEN [w |-> [w EXCEPT !.io = n], ok |-> FALSE]
    ELSE [w |-> [w EXCEPT !.io = n,
                          !.disk = [s \in 0..(NSECT - 1) |->
                                      IF s >= sect /\ s < sect + Len(bufs)
                                      THEN bufs[s - sect + 1] ELSE w.disk[s]]],
          ok |-> TRUE]

\* disk_read of one sector; a failed read leaves the buffer as it was
disk_read(w, old, sect) ==
    LET n == w.io + 1 IN
    IF n \in w.fail \/ sect < 0 \/ sect >= NSECT
    THEN [w |-> [w EXCEPT !.io = n], ok |-> FALSE, buf |-> old]
    ELSE [w |-> [w EXCEPT !.io = n], ok |-> TRUE, buf |-> w.disk[sect]]

\* disk_ioctl(CTRL_SYNC)
disk_ioctl(w) ==
    LET n == w.io + 1 IN
    [w |-> [w EXCEPT !.io = n], ok |-> n \notin w.fail]

(*------------------------- calls between the functions --------------------*)
\* A call of one volume-level function from another is written
\* Do("callee", <<arguments>>); Do is defined after the last of them.
RECURSIVE Do(_, _)

(*------------------------- sector window ---------------------------------*)
sync_window(w) ==
    IF w.fs.wflag # 1 THEN [w |-> w, res |-> "FR_OK"]
    ELSE CHOOSE r \in {
           IF ~d.ok THEN [w |-> d.w, res |-> "FR_DISK_ERR"]
           ELSE IF USub(d.w.fs.winsect, FATBASE) < FSIZE /\ N_FATS = 2
                THEN [w |-> disk_write([d.w EXCEPT !.fs.wflag = 0], <<d.w.fs.win>>,
                                       d.w.fs.winsect + FSIZE).w,
                      res |-> "FR_OK"]
                ELSE [w |-> [d.w EXCEPT !.fs.wflag = 0], res |-> "FR_OK"]
         : d \in {disk_write(w, <<w.fs.win>>, w.fs.winsect)}} : TRUE

move_window(w, sect) ==
    IF sect = w.fs.winsect THEN [w |-> w, res |-> "FR_OK"]
    ELSE CHOOSE r \in {
           IF s.res # "FR_OK" THEN s
           ELSE CHOOSE r2 \in {
                  IF d.ok
                  THEN [w |-> [d.w EXCEPT !.fs.win = d.buf, !.fs.winsect = sect],
                        res |-> "FR_OK"]
                  ELSE [w |-> [d.w EXCEPT !.fs.winsect = DISK_ERROR],
                        res |-> "FR_DISK_ERR"]
                : d \in {disk_read(s.w, s.w.fs.win, sect)}} : TRUE
         : s \in {Do("sync_window", <<w>>)}} : TRUE

\* the FSInfo update of sync_fs (FAT32 only)
sync_fsinfo(w) ==
    IF w.fs.fs_type = FS_FAT32 /\ w.fs.fsi_flag = 1
    THEN [disk_write([w EXCEPT !.fs.win = ZeroSect, !.fs.winsect = VOLBASE + 1],
                     <<ZeroSect>>, VOLBASE + 1).w EXCEPT !.fs.fsi_flag = 0]
    ELSE w

sync_fs(w) ==
    CHOOSE r \in {
      IF s.res # "FR_OK" THEN s
      ELSE CHOOSE r2 \in {
             [w |-> c.w, res |-> IF c.ok THEN "FR_OK" ELSE "FR_DISK_ERR"]
           : c \in {disk_ioctl(sync_fsinfo(s.w))}} : TRUE
    : s \in {Do("sync_window", <<w>>)}} : TRUE

clst2sect(clst) ==
    IF USub(clst, 2) >= N_FATENT - 2 THEN 0
    ELSE DATABASE + CSIZE * (clst - 2)

(*------------------------- FAT access ------------------------------------*)
\* little-endian loads and stores in a sector buffer
ld_bytes(buf, ofs, n) ==
    LET RECURSIVE ld(_)
        ld(i) == IF i = n THEN 0 ELSE buf[ofs + i] + 256 * ld(i + 1)
    IN ld(0)

st_bytes(buf, ofs, n, val) ==
    [i \in 0..(SS - 1) |->
        IF i >= ofs /\ i < ofs + n
        THEN (val \div (256 ^ (i - ofs))) % 256
        ELSE buf[i]]

\* the 12-bit entry of cluster clst, from its two bytes lo and hi
fat12_val(clst, lo, hi) ==
    IF clst % 2 = 1 THEN (lo + 256 * hi) \div 16 ELSE (lo + 256 * hi) % 4096

get_fat12(w, clst) ==
    CHOOSE r \in {
      IF m1.res # "FR_OK" THEN [w |-> m1.w, val |-> DISK_ERROR]
      ELSE CHOOSE r2 \in {
             IF m2.res # "FR_OK" THEN [w |-> m2.w, val |-> DISK_ERROR]
             ELSE [w |-> m2.w,
                   val |-> fat12_val(clst, m1.w.fs.win[(clst + clst \div 2) % SS],
                                     m2.w.fs.win[(clst + clst \div 2 + 1) % SS])]
           : m2 \in {Do("move_window", <<m1.w, FATBASE + (clst + clst \div 2 + 1) \div SS>>)}}
           : TRUE
    : m1 \in {Do("move_window", <<w, FATBASE + (clst + clst \div 2) \div SS>>)}} : TRUE

get_fat(w, clst) ==
    IF clst < 2 \/ clst >= N_FATENT THEN [w |-> w, val |-> 1]
    ELSE IF w.fs.fs_type = FS_FAT12 THEN get_fat12(w, clst)
    ELSE IF w.fs.fs_type \in {FS_FAT16, FS_FAT32}
    THEN CHOOSE r \in {
           IF m.res # "FR_OK" THEN [w |-> m.w, val |-> DISK_ERROR]
           ELSE IF w.fs.fs_type = FS_FAT16
                THEN [w |-> m.w, val |-> ld_bytes(m.w.fs.win, (clst * 2) % SS, 2)]
                ELSE [w |-> m.w,
                      val |-> ld_bytes(m.w.fs.win, (clst * 4) % SS, 4) % 268435456]
         : m \in {Do("move_window",
                     <<w, FATBASE + clst \div (SS \div (IF w.fs.fs_type = FS_FAT16
                                                         THEN 2 ELSE 4))>>)}} : TRUE
    ELSE [w |-> w, val |-> 1]

\* the two bytes of a 12-bit entry after val is stored over the old bytes
\* fat12_byte1 without '*p & 0x0F': the neighbour's nibble is lost
fat12_byte1_clobber(clst, old, val) ==
    IF clst % 2 = 1 THEN 16 * (val % 16) ELSE val % 256

fat12_byte1(clst, old, val) ==
    IF clst % 2 = 1 THEN (old % 16) + 16 * (val % 16) ELSE val % 256

fat12_byte2(clst, old, val) ==
    IF clst % 2 = 1 THEN (val \div 16) % 256
    ELSE (old \div 16) * 16 + ((val \div 256) % 16)

put_fat12(w, clst, val) ==
    CHOOSE r \in {
      IF m1.res # "FR_OK" THEN m1
      ELSE CHOOSE r2 \in {
             IF m2.res # "FR_OK" THEN m2
             ELSE [w |-> [m2.w EXCEPT
                            !.fs.win[(clst + clst \div 2 + 1) % SS] =
                                fat12_byte2(clst, @, val),
                            !.fs.wflag = 1],
                   res |-> "FR_OK"]
           : m2 \in {Do("move_window",
                        <<[m1.w EXCEPT !.fs.win[(clst + clst \div 2) % SS] =
                                           fat12_byte1(clst, @, val),
                                       !.fs.wflag = 1],
                          FATBASE + (clst + clst \div 2 + 1) \div SS>>)}} : TRUE
    : m1 \in {Do("move_window", <<w, FATBASE + (clst + clst \div 2) \div SS>>)}} : TRUE

put_fat(w, clst, val) ==
    IF clst < 2 \/ clst >= N_FATENT THEN [w |-> w, res |-> "FR_INT_ERR"]
    ELSE IF w.fs.fs_type = FS_FAT12 THEN put_fat12(w, clst, val)
    ELSE IF w.fs.fs_type = FS_FAT16
    THEN CHOOSE r \in {
           IF m.res # "FR_OK" THEN m
           ELSE [w |-> [m.w EXCEPT
                          !.fs.win = st_bytes(@, (clst * 2) % SS, 2, val % 65536),
                          !.fs.wflag = 1],
                 res |-> "FR_OK"]
         : m \in {Do("move_window", <<w, FATBASE + clst \div (SS \div 2)>>)}} : TRUE
    ELSE IF w.fs.fs_type = FS_FAT32
    THEN CHOOSE r \in {
           IF m.res # "FR_OK" THEN m
           ELSE [w |-> [m.w EXCEPT
                          !.fs.win = st_bytes(@, (clst * 4) % SS, 4,
                                              (val % 268435456)
                                              + (ld_bytes(@, (clst * 4) % SS, 4)
                                                 \div 268435456) * 268435456),
                          !.fs.wflag = 1],
                 res |-> "FR_OK"]
         : m \in {Do("move_window", <<w, FATBASE + clst \div (SS \div 4)>>)}} : TRUE
    ELSE [w |-> w, res |-> "FR_INT_ERR"]

RECURSIVE remove_loop(_, _)
remove_loop(w, clst) ==
    CHOOSE r \in {
      IF g.val = 0 THEN [w |-> g.w, res |-> "FR_OK"]
      ELSE IF g.val = 1 THEN [w |-> g.w, res |-> "FR_INT_ERR"]
      ELSE IF g.val = DISK_ERROR THEN [w |-> g.w, res |-> "FR_DISK_ERR"]
      ELSE CHOOSE r2 \in {
             IF p.res # "FR_OK" THEN p
             ELSE CHOOSE r3 \in {
                    IF g.val < N_FATENT THEN remove_loop(w1, g.val)
                    ELSE [w |-> w1, res |-> "FR_OK"]
                  : w1 \in {IF p.w.fs.free_clst < N_FATENT - 2
                            THEN [p.w EXCEPT !.fs.free_clst = @ + 1,
                                             !.fs.fsi_flag = IF @ % 2 = 1 THEN @ ELSE @ + 1]
                            ELSE p.w}} : TRUE
           : p \in {Do("put_fat", <<g.w, clst, 0>>)}} : TRUE
    : g \in {Do("get_fat", <<w, clst>>)}} : TRUE

remove_chain(w, clst, pclst) ==
    IF clst < 2 \/ clst >= N_FATENT THEN [w |-> w, res |-> "FR_INT_ERR"]
    ELSE CHOOSE r \in {
           IF p.res # "FR_OK" THEN p ELSE remove_loop(p.w, clst)
         : p \in {IF pclst # 0 THEN Do("put_fat", <<w, pclst, DISK_ERROR>>)
                  ELSE [w |-> w, res |-> "FR_OK"]}} : TRUE

\* the search loop of create_chain: the first free cluster after scl
RECURSIVE find_free(_, _, _)
find_free(w, scl, ncl0) ==
    IF ncl0 + 1 >= N_FATENT /\ 2 > scl THEN [w |-> w, val |-> 0, found |-> FALSE]
    ELSE CHOOSE r \in {
           CHOOSE r2 \in {
             IF g.val = 0 THEN [w |-> g.w, val |-> ncl, found |-> TRUE]
             ELSE IF g.val = 1 \/ g.val = DISK_ERROR
                  THEN [w |-> g.w, val |-> g.val, found |-> FALSE]
             ELSE IF ncl = scl THEN [w |-> g.w, val |-> 0, found |-> FALSE]
             ELSE find_free(g.w, scl, ncl)
           : g \in {Do("get_fat", <<w, ncl>>)}} : TRUE
         : ncl \in {IF ncl0 + 1 >= N_FATENT THEN 2 ELSE ncl0 + 1}} : TRUE

\* the tail of create_chain: mark ncl 'EOC', link it, update the hints
link_new(w, clst, ncl) ==
    CHOOSE r \in {
      CHOOSE r2 \in {
        IF p2.res = "FR_OK"
        THEN [w |-> [p2.w EXCEPT !.fs.last_clst = ncl,
                                 !.fs.free_clst = IF @ <= N_FATENT - 2 THEN USub(@, 1) ELSE @,
                                 !.fs.fsi_flag = IF @ % 2 = 1 THEN @ ELSE @ + 1],
              val |-> ncl]
        ELSE [w |-> p2.w, val |-> IF p2.res = "FR_DISK_ERR" THEN DISK_ERROR ELSE 1]
      : p2 \in {IF p1.res = "FR_OK" /\ clst # 0 THEN Do("put_fat", <<p1.w, clst, ncl>>)
                ELSE p1}} : TRUE
    : p1 \in {Do("put_fat", <<w, ncl, DISK_ERROR>>)}} : TRUE

\* a faulty test that never takes the cluster next to the end of the chain
next_is_free_never(w, scl0) ==
    [w |-> w, err |-> FALSE, val |-> 0, ncl |-> 0,
     scl |-> IF w.fs.last_clst >= 2 /\ w.fs.last_clst < N_FATENT
             THEN w.fs.last_clst ELSE scl0]

\* the test of the cluster next to the end of a chain that is stretched
next_is_free(w, scl0) ==
    CHOOSE r \in {
      CHOOSE r2 \in {
        IF g.val = 1 \/ g.val = DISK_ERROR
        THEN [w |-> g.w, err |-> TRUE, val |-> g.val, ncl |-> 0, scl |-> scl0]
        ELSE IF g.val # 0
        THEN [w |-> g.w, err |-> FALSE, val |-> 0, ncl |-> 0,
              scl |-> IF g.w.fs.last_clst >= 2 /\ g.w.fs.last_clst < N_FATENT
                      THEN g.w.fs.last_clst ELSE scl0]
        ELSE [w |-> g.w, err |-> FALSE, val |-> 0, ncl |-> n1, scl |-> scl0]
      : g \in {Do("get_fat", <<w, n1>>)}} : TRUE
    : n1 \in {IF scl0 + 1 >= N_FATENT THEN 2 ELSE scl0 + 1}} : TRUE

\* create_chain after the start cluster scl has been chosen
stretch_from(w, clst, scl0) ==
    IF w.fs.free_clst = 0 THEN [w |-> w, val |-> 0]
    ELSE CHOOSE r \in {
           IF adj.err THEN [w |-> adj.w, val |-> adj.val]
           ELSE IF adj.ncl # 0 THEN link_new(adj.w, clst, adj.ncl)
           ELSE CHOOSE r2 \in {
                  IF f.found THEN link_new(f.w, clst, f.val)
                  ELSE [w |-> f.w, val |-> f.val]
                : f \in {find_free(adj.w, adj.scl, adj.scl)}} : TRUE
         : adj \in {IF scl0 = clst THEN next_is_free(w, scl0)
                    ELSE [w |-> w, err |-> FALSE, val |-> 0, ncl |-> 0, scl |-> scl0]}}
         : TRUE

create_chain(w, clst) ==
    IF clst = 0
    THEN stretch_from(w, clst,
                      IF w.fs.last_clst = 0 \/ w.fs.last_clst >= N_FATENT
                      THEN 1 ELSE w.fs.last_clst)
    ELSE CHOOSE r \in {
           IF g.val < 2 THEN [w |-> g.w, val |-> 1]
           ELSE IF g.val = DISK_ERROR THEN [w |-> g.w, val |-> g.val]
           ELSE IF g.val < N_FATENT THEN [w |-> g.w, val |-> g.val]
           ELSE stretch_from(g.w, clst, clst)
         : g \in {Do("get_fat", <<w, clst>>)}} : TRUE

(*------------------------- directory entries -----------------------------*)
DIR_Name == 0
DIR_Attr == 1
DIR_FstClusLO == 2
DIR_FileSize == 3
LDIR_Ord == 0
LDIR_Attr == 1
LDIR_Chksum == 2
LDIR_Name == 3          \* the 13 name characters of an LFN entry: one unit
DDEM == 229             \* 0xE5
LLEF == 64              \* 0x40
AM_RDO == 1
AM_VOL == 8
AM_LFN == 15
AM_DIR == 16
AM_ARC == 32
AM_MASK == 63
DOT == 46               \* '.'
DOTDOT == 11822         \* the name "..": '.' + 256 * '.'
NOBLK == DISK_ERROR     \* dp->blk_ofs = 0xFFFFFFFF: no LFN block

HasBit(x, m) == (x \div m) % 2 = 1
SetBit(x, m) == IF HasBit(x, m) THEN x ELSE x + m
ClrBit(x, m) == IF HasBit(x, m) THEN x - m ELSE x

\* dp->dir[k]: the entry dp points to lies in the window at dptr % SS
DirCell(w, dp, k) == w.fs.win[(dp.dptr % SS) + k]
SetDirCell(w, dp, k, v) == [w EXCEPT !.fs.win[(dp.dptr % SS) + k] = v, !.fs.wflag = 1]

ld_clust(w, ofs) == w.fs.win[ofs + DIR_FstClusLO]

st_clust(w, ofs, cl) == [w EXCEPT !.fs.win[ofs + DIR_FstClusLO] = cl % 65536]

\* the name cell holds the first byte of the 8.3 name in its low eight bits
\* and the rest of the name above them
FirstByte(name) == name % 256

\* the checksum of an 8.3 name: rotate right and add, byte by byte
sum_sfn(name) ==
    LET RECURSIVE rot_add(_, _, _)
        rot_add(sum, rest, n) ==
            IF n = 0 THEN sum
            ELSE rot_add(((sum \div 2) + (sum % 2) * 128 + (rest % 256)) % 256,
                         rest \div 256, n - 1)
    IN rot_add(0, name, 2)

NewDir == [sclust |-> 0, attr |-> 0, dptr |-> 0, clust |-> 0, sect |-> 0,
           blk_ofs |-> NOBLK, fn |-> 0, ns |-> {}, lfn |-> <<>>]


RECURSIVE clear_loop(_, _, _)
clear_loop(w, sect, n) ==
    IF n >= CSIZE THEN [w |-> w, res |-> "FR_OK"]
    ELSE CHOOSE r \in {
           IF d.ok THEN clear_loop(d.w, sect, n + 1)
           ELSE [w |-> d.w, res |-> "FR_DISK_ERR"]
         : d \in {disk_write(w, <<w.fs.win>>, sect + n)}} : TRUE

dir_clear(w, clst) ==
    CHOOSE r \in {
      IF s.res # "FR_OK" THEN [w |-> s.w, res |-> "FR_DISK_ERR"]
      ELSE clear_loop([s.w EXCEPT !.fs.winsect = clst2sect(clst), !.fs.win = ZeroSect],
                      clst2sect(clst), 0)
    : s \in {Do("sync_window", <<w>>)}} : TRUE

RECURSIVE sdi_follow(_, _, _)
sdi_follow(w, clst, ofs) ==
    IF ofs < BCS THEN [w |-> w, clst |-> clst, ofs |-> ofs, res |-> "FR_OK"]
    ELSE CHOOSE r \in {
           IF g.val = DISK_ERROR
           THEN [w |-> g.w, clst |-> clst, ofs |-> ofs, res |-> "FR_DISK_ERR"]
           ELSE IF g.val < 2 \/ g.val >= N_FATENT
           THEN [w |-> g.w, clst |-> clst, ofs |-> ofs, res |-> "FR_INT_ERR"]
           ELSE sdi_follow(g.w, g.val, ofs - BCS)
         : g \in {Do("get_fat", <<w, clst>>)}} : TRUE

dir_sdi(w, dp, ofs) ==
    IF ofs >= MAX_DIR \/ ofs % SZDIRE # 0 THEN [w |-> w, dp |-> dp, res |-> "FR_INT_ERR"]
    ELSE IF dp.sclust = 0 /\ w.fs.fs_type < FS_FAT32
    THEN IF ofs \div SZDIRE >= N_ROOTDIR
         THEN [w |-> w, dp |-> [dp EXCEPT !.dptr = ofs], res |-> "FR_INT_ERR"]
         ELSE [w |-> w, res |-> "FR_OK",
               dp |-> [dp EXCEPT !.dptr = ofs, !.clust = 0,
                                 !.sect = DIRBASE + ofs \div SS]]
    ELSE CHOOSE r \in {
           IF f.res # "FR_OK"
           THEN [w |-> f.w, dp |-> [dp EXCEPT !.dptr = ofs], res |-> f.res]
           ELSE IF clst2sect(f.clst) = 0
           THEN [w |-> f.w, res |-> "FR_INT_ERR",
                 dp |-> [dp EXCEPT !.dptr = ofs, !.clust = f.clst, !.sect = 0]]
           ELSE [w |-> f.w, res |-> "FR_OK",
                 dp |-> [dp EXCEPT !.dptr = ofs, !.clust = f.clst,
                                   !.sect = clst2sect(f.clst) + f.ofs \div SS]]
         : f \in {sdi_follow(w, IF dp.sclust = 0 THEN DIRBASE ELSE dp.sclust, ofs)}}
         : TRUE

\* dir_next at a cluster boundary of a sub-directory
next_cluster(w, dp, ofs, stretch) ==
    CHOOSE r \in {
      IF g.val <= 1 THEN [w |-> g.w, dp |-> dp, res |-> "FR_INT_ERR"]
      ELSE IF g.val = DISK_ERROR THEN [w |-> g.w, dp |-> dp, res |-> "FR_DISK_ERR"]
      ELSE IF g.val < N_FATENT
      THEN [w |-> g.w, res |-> "FR_OK",
            dp |-> [dp EXCEPT !.clust = g.val, !.sect = clst2sect(g.val), !.dptr = ofs]]
      ELSE IF ~stretch
      THEN [w |-> g.w, dp |-> [dp EXCEPT !.sect = 0], res |-> "FR_NO_FILE"]
      ELSE CHOOSE r2 \in {
             IF c.val = 0 THEN [w |-> c.w, dp |-> dp, res |-> "FR_NO_SPACE_LEFT"]
             ELSE IF c.val = 1 THEN [w |-> c.w, dp |-> dp, res |-> "FR_INT_ERR"]
             ELSE IF c.val = DISK_ERROR THEN [w |-> c.w, dp |-> dp, res |-> "FR_DISK_ERR"]
             ELSE CHOOSE r3 \in {
                    IF z.res # "FR_OK" THEN [w |-> z.w, dp |-> dp, res |-> "FR_DISK_ERR"]
                    ELSE [w |-> z.w, res |-> "FR_OK",
                          dp |-> [dp EXCEPT !.clust = c.val, !.sect = clst2sect(c.val),
                                            !.dptr = ofs]]
                  : z \in {Do("dir_clear", <<c.w, c.val>>)}} : TRUE
           : c \in {Do("create_chain", <<g.w, dp.clust>>)}} : TRUE
    : g \in {Do("get_fat", <<w, dp.clust>>)}} : TRUE

dir_next(w, dp, stretch) ==
    IF dp.dptr + SZDIRE >= MAX_DIR
    THEN [w |-> w, dp |-> [dp EXCEPT !.sect = 0], res |-> "FR_NO_FILE"]
    ELSE IF dp.sect = 0 THEN [w |-> w, dp |-> dp, res |-> "FR_NO_FILE"]
    ELSE IF (dp.dptr + SZDIRE) % SS # 0
    THEN [w |-> w, dp |-> [dp EXCEPT !.dptr = @ + SZDIRE], res |-> "FR_OK"]
    ELSE IF dp.clust = 0
    THEN IF (dp.dptr + SZDIRE) \div SZDIRE >= N_ROOTDIR
         THEN [w |-> w, dp |-> [dp EXCEPT !.sect = 0], res |-> "FR_NO_FILE"]
         ELSE [w |-> w, dp |-> [dp EXCEPT !.sect = @ + 1, !.dptr = @ + SZDIRE],
               res |-> "FR_OK"]
    ELSE IF ((dp.dptr + SZDIRE) \div SS) % CSIZE # 0
    THEN [w |-> w, dp |-> [dp EXCEPT !.sect = @ + 1, !.dptr = @ + SZDIRE], res |-> "FR_OK"]
    ELSE next_cluster(w, [dp EXCEPT !.sect = @ + 1], dp.dptr + SZDIRE, stretch)

RECURSIVE alloc_loop(_, _, _, _)
alloc_loop(w, dp, n, n_ent) ==
    CHOOSE r \in {
      IF m.res # "FR_OK" THEN [w |-> m.w, dp |-> dp, res |-> m.res]
      ELSE IF FirstByte(DirCell(m.w, dp, DIR_Name)) \in {DDEM, 0}
      THEN IF n + 1 = n_ent THEN [w |-> m.w, dp |-> dp, res |-> "FR_OK"]
           ELSE CHOOSE r2 \in {
                  IF nx.res = "FR_OK" THEN alloc_loop(nx.w, nx.dp, n + 1, n_ent) ELSE nx
                : nx \in {Do("dir_next", <<m.w, dp, TRUE>>)}} : TRUE
      ELSE CHOOSE r2 \in {
             IF nx.res = "FR_OK" THEN alloc_loop(nx.w, nx.dp, 0, n_ent) ELSE nx
           : nx \in {Do("dir_next", <<m.w, dp, TRUE>>)}} : TRUE
    : m \in {Do("move_window", <<w, dp.sect>>)}} : TRUE

dir_alloc(w, dp, n_ent) ==
    CHOOSE r \in {
      IF s.res # "FR_OK" THEN s
      ELSE CHOOSE r2 \in {
             [a EXCEPT !.res = IF @ = "FR_NO_FILE" THEN "FR_DENIED" ELSE @]
           : a \in {alloc_loop(s.w, s.dp, 0, n_ent)}} : TRUE
    : s \in {Do("dir_sdi", <<w, dp, 0>>)}} : TRUE

(*------------------------- names -----------------------------------------*)
\* The names the callers use.  create_name turns a path segment into the
\* SFN (one cell), the name-status flags and the LFN (one unit per 13
\* characters).  "A", "B", "D" fit 8.3; "L" is a mixed-case name that needs
\* an LFN entry; "X" is a name that does not fit 8.3 (lossy conversion).
Names == {"A", "B", "D", "L", "X"}

ff_wtoupper(u) == IF u >= 97 /\ u <= 122 THEN u - 32 ELSE u

create_name(dp, seg, last) ==
    LET t == CASE seg = "A" -> [fn |-> 65, ns |-> {}, lfn |-> <<65>>]
               [] seg = "B" -> [fn |-> 66, ns |-> {}, lfn |-> <<66>>]
               [] seg = "D" -> [fn |-> 68, ns |-> {}, lfn |-> <<68>>]
               [] seg = "L" -> [fn |-> 76, ns |-> {"NS_LFN"}, lfn |-> <<108>>]
               [] OTHER -> [fn |-> 88, ns |-> {"NS_LFN", "NS_LOSS"}, lfn |-> <<120, 121>>]
    IN [dp EXCEPT !.fn = t.fn, !.lfn = t.lfn,
                  !.ns = t.ns \cup (IF last THEN {"NS_LAST"} ELSE {})]

cmp_lfn(lfn, w, dp) ==
    LET i == DirCell(w, dp, LDIR_Ord) % 64 IN
    /\ i >= 1 /\ i <= Len(lfn)
    /\ ff_wtoupper(DirCell(w, dp, LDIR_Name)) = ff_wtoupper(lfn[i])
    /\ ~(HasBit(DirCell(w, dp, LDIR_Ord), LLEF) /\ i < Len(lfn))

pick_lfn(w, dp) ==
    LET i == ClrBit(DirCell(w, dp, LDIR_Ord), LLEF) IN i >= 1 /\ i <= 20

put_lfn(w, dp, lfn, ord, sum) ==
    LET o == IF ord >= Len(lfn) THEN SetBit(ord, LLEF) ELSE ord
        b == dp.dptr % SS IN
    [w EXCEPT !.fs.win[b + LDIR_Chksum] = sum,
              !.fs.win[b + LDIR_Attr] = AM_LFN,
              !.fs.win[b + LDIR_Name] = lfn[ord],
              !.fs.win[b + LDIR_Ord] = o]

\* 17-bit exclusive or, for the hash of gen_numname
RECURSIVE BitXor(_, _)
BitXor(a, b) ==
    IF a = 0 THEN b ELSE IF b = 0 THEN a
    ELSE ((a + b) % 2) + 2 * BitXor(a \div 2, b \div 2)

RECURSIVE crc_bits(_, _, _)
crc_bits(sreg, wc, i) ==
    IF i = 16 THEN sreg
    ELSE LET s1 == sreg * 2 + (wc % 2) IN
         IF HasBit(s1, 65536) THEN crc_bits(BitXor(s1, 69665), wc \div 2, i + 1)
         ELSE crc_bits(s1, wc \div 2, i + 1)

RECURSIVE crc_lfn(_, _, _)
crc_lfn(sreg, lfn, k) ==
    IF k > Len(lfn) THEN sreg
    ELSE CHOOSE r \in {crc_lfn(v, lfn, k + 1) : v \in {crc_bits(sreg, lfn[k], 0)}} : TRUE

\* the numbered SFN: the body of src followed by '~' and the sequence number
gen_numname(src, lfn, seq) ==
    LET s == IF seq > 5 THEN crc_lfn(seq, lfn, 1) ELSE seq IN
    src + 256 * (s + 1)

(*------------------------- directory search ------------------------------*)
RECURSIVE read_loop(_, _, _, _, _)
\* one turn of the loop of dir_read on the entry with first cell b and
\* attribute attr, in the window of w
read_entry(w, dp, vol, ord, sum, b, attr) ==
    LET skip == b = DDEM \/ b = DOT \/ ((ClrBit(attr, AM_ARC) = AM_VOL) # vol)
        start == ~skip /\ attr = AM_LFN /\ HasBit(b, LLEF)
        sum1 == IF start THEN DirCell(w, dp, LDIR_Chksum) ELSE sum
        ord0 == IF start THEN b - LLEF ELSE ord
        b1 == IF start THEN b - LLEF ELSE b
    IN
    IF ~skip /\ attr # AM_LFN
    THEN [w |-> w, res |-> "FR_OK",
          dp |-> [dp EXCEPT !.attr = attr,
                            !.blk_ofs = IF ord # 0
                                           \/ sum # sum_sfn(DirCell(w, dp, DIR_Name))
                                        THEN NOBLK ELSE @]]
    ELSE CHOOSE r \in {
           IF nx.res # "FR_OK" THEN nx
           ELSE read_loop(nx.w, nx.dp, vol,
                          IF skip THEN 255
                          ELSE IF b1 = ord0 /\ sum1 = DirCell(w, dp, LDIR_Chksum)
                                  /\ pick_lfn(w, dp)
                          THEN ord0 - 1 ELSE 255,
                          sum1)
         : nx \in {Do("dir_next",
                      <<w, [dp EXCEPT !.attr = attr,
                                      !.blk_ofs = IF start THEN dp.dptr ELSE @], FALSE>>)}}
         : TRUE

read_loop(w, dp, vol, ord, sum) ==
    IF dp.sect = 0 THEN [w |-> w, dp |-> dp, res |-> "FR_NO_FILE"]
    ELSE CHOOSE r \in {
           IF m.res # "FR_OK" THEN [w |-> m.w, dp |-> dp, res |-> m.res]
           ELSE IF FirstByte(DirCell(m.w, dp, DIR_Name)) = 0
           THEN [w |-> m.w, dp |-> dp, res |-> "FR_NO_FILE"]
           ELSE read_entry(m.w, dp, vol, a[1], a[2],
                           FirstByte(DirCell(m.w, dp, DIR_Name)),
                           DirCell(m.w, dp, DIR_Attr) % (AM_MASK + 1))
         : m \in {Do("move_window", <<w, dp.sect>>)}, a \in {<<ord, sum>>}} : TRUE

dir_read(w, dp, vol) ==
    CHOOSE r \in {
      IF l.res # "FR_OK" THEN [l EXCEPT !.dp.sect = 0] ELSE l
    : l \in {read_loop(w, dp, vol, 255, 255)}} : TRUE

RECURSIVE find_loop(_, _, _, _)
\* one turn of the loop of dir_find on the entry with first cell c and
\* attribute a, in the window of w
find_entry(w, dp, ord, sum, c, a) ==
    LET invalid == c = DDEM \/ (HasBit(a, AM_VOL) /\ a # AM_LFN)
        islfn == ~invalid /\ a = AM_LFN
        uselfn == islfn /\ "NS_NOLFN" \notin dp.ns
        start == uselfn /\ HasBit(c, LLEF)
        sum1 == IF start THEN DirCell(w, dp, LDIR_Chksum) ELSE sum
        ord0 == IF start THEN c - LLEF ELSE ord
        c1 == IF start THEN c - LLEF ELSE c
        sfnhit == ~invalid /\ ~islfn
                  /\ ( (ord = 0 /\ sum = sum_sfn(DirCell(w, dp, DIR_Name)))
                       \/ ("NS_LOSS" \notin dp.ns /\ DirCell(w, dp, DIR_Name) = dp.fn) )
    IN
    IF sfnhit THEN [w |-> w, dp |-> [dp EXCEPT !.attr = a], res |-> "FR_OK"]
    ELSE CHOOSE r \in {
           IF nx.res # "FR_OK" THEN nx
           ELSE find_loop(nx.w, nx.dp,
                          IF invalid \/ ~islfn THEN 255
                          ELSE IF ~uselfn THEN ord
                          ELSE IF c1 = ord0 /\ sum1 = DirCell(w, dp, LDIR_Chksum)
                                  /\ cmp_lfn(dp.lfn, w, dp)
                          THEN ord0 - 1 ELSE 255,
                          sum1)
         : nx \in {Do("dir_next",
                      <<w, [dp EXCEPT !.attr = a,
                                      !.blk_ofs = IF invalid \/ ~islfn THEN NOBLK
                                                  ELSE IF start THEN dp.dptr ELSE @],
                        FALSE>>)}} : TRUE

find_loop(w, dp, ord, sum) ==
    CHOOSE r \in {
      IF m.res # "FR_OK" THEN [w |-> m.w, dp |-> dp, res |-> m.res]
      ELSE IF FirstByte(DirCell(m.w, dp, DIR_Name)) = 0
      THEN [w |-> m.w, dp |-> dp, res |-> "FR_NO_FILE"]
      ELSE find_entry(m.w, dp, a[1], a[2], FirstByte(DirCell(m.w, dp, DIR_Name)),
                      DirCell(m.w, dp, DIR_Attr) % (AM_MASK + 1))
    : m \in {Do("move_window", <<w, dp.sect>>)}, a \in {<<ord, sum>>}} : TRUE

dir_find(w, dp) ==
    CHOOSE r \in {
      IF s.res # "FR_OK" THEN s
      ELSE find_loop(s.w, [s.dp EXCEPT !.blk_ofs = NOBLK], 255, 255)
    : s \in {Do("dir_sdi", <<w, dp, 0>>)}} : TRUE

(*------------------------- register / remove -----------------------------*)
\* the collision loop of dir_register: the first numbered SFN not in use
RECURSIVE numname_loop(_, _, _, _)
numname_loop(w, dp, sn, n) ==
    IF n >= 100 THEN [w |-> w, dp |-> dp, res |-> "FR_DENIED"]
    ELSE CHOOSE r \in {
           IF f.res = "FR_OK" THEN numname_loop(f.w, f.dp, sn, n + 1) ELSE f
         : f \in {Do("dir_find", <<w, [dp EXCEPT !.fn = gen_numname(sn, dp.lfn, n)]>>)}}
         : TRUE

\* the loop of dir_register that stores the LFN entries, last part first
RECURSIVE lfn_loop(_, _, _, _)
lfn_loop(w, dp, n_ent, sum) ==
    CHOOSE r \in {
      IF m.res # "FR_OK" THEN [w |-> m.w, dp |-> dp, res |-> m.res]
      ELSE CHOOSE r2 \in {
             IF nx.res = "FR_OK" /\ n_ent - 1 # 0
             THEN lfn_loop(nx.w, nx.dp, n_ent - 1, sum)
             ELSE nx
           : nx \in {Do("dir_next",
                        <<[put_lfn(m.w, dp, dp.lfn, n_ent, sum) EXCEPT !.fs.wflag = 1],
                          dp, FALSE>>)}} : TRUE
    : m \in {Do("move_window", <<w, dp.sect>>)}} : TRUE

\* dir_register once the SFN is settled: reserve n_ent entries, store the
\* LFN entries and then the SFN entry
store_entries(w, dp, n_ent) ==
    CHOOSE r \in {
      CHOOSE r2 \in {
        IF lf.res # "FR_OK" THEN lf
        ELSE CHOOSE r3 \in {
               IF m.res # "FR_OK" THEN [w |-> m.w, dp |-> lf.dp, res |-> m.res]
               ELSE [w |-> [m.w EXCEPT
                              !.fs.win = [i \in 0..(SS - 1) |->
                                            IF i = (lf.dp.dptr % SS) + DIR_Name
                                            THEN lf.dp.fn
                                            ELSE IF i >= lf.dp.dptr % SS
                                                    /\ i < (lf.dp.dptr % SS) + SZDIRE
                                            THEN 0
                                            ELSE @[i]],
                              !.fs.wflag = 1],
                     dp |-> lf.dp, res |-> "FR_OK"]
             : m \in {Do("move_window", <<lf.w, lf.dp.sect>>)}} : TRUE
      : lf \in {IF al.res = "FR_OK" /\ n_ent - 1 # 0
                THEN CHOOSE r4 \in {
                       IF s.res = "FR_OK"
                       THEN lfn_loop(s.w, s.dp, n_ent - 1, sum_sfn(s.dp.fn))
                       ELSE s
                     : s \in {Do("dir_sdi",
                                 <<al.w, al.dp, al.dp.dptr - (n_ent - 1) * SZDIRE>>)}}
                     : TRUE
                ELSE al}} : TRUE
    : al \in {Do("dir_alloc", <<w, dp, n_ent>>)}} : TRUE

dir_register(w, dp) ==
    IF dp.ns \cap {"NS_DOT", "NS_NONAME"} # {}
    THEN [w |-> w, dp |-> dp, res |-> "FR_INVALID_NAME"]
    ELSE CHOOSE r \in {
           IF num.res # "FR_NO_FILE" THEN num
           ELSE store_entries(num.w, [num.dp EXCEPT !.ns = dp.ns],
                              IF "NS_LFN" \in dp.ns THEN Len(dp.lfn) + 1 ELSE 1)
         : num \in {IF "NS_LOSS" \in dp.ns
                    THEN numname_loop(w, [dp EXCEPT !.ns = {"NS_NOLFN"}], dp.fn, 1)
                    ELSE [w |-> w, dp |-> dp, res |-> "FR_NO_FILE"]}} : TRUE

\* dp->dir[DIR_Name] = DDEM: the first byte of the name, the window dirty
MarkDeleted(w, dp) ==
    SetDirCell(w, dp, DIR_Name, DDEM + 256 * (DirCell(w, dp, DIR_Name) \div 256))

RECURSIVE remove_loop_dir(_, _, _)
remove_loop_dir(w, dp, last) ==
    CHOOSE r \in {
      IF m.res # "FR_OK" THEN [w |-> m.w, dp |-> dp, res |-> m.res]
      ELSE IF dp.dptr >= last
      THEN [w |-> MarkDeleted(m.w, dp), dp |-> dp, res |-> "FR_OK"]
      ELSE CHOOSE r2 \in {
             IF nx.res = "FR_OK" THEN remove_loop_dir(nx.w, nx.dp, last) ELSE nx
           : nx \in {Do("dir_next",
                        <<MarkDeleted(m.w, dp), dp, FALSE>>)}} : TRUE
    : m \in {Do("move_window", <<w, dp.sect>>)}} : TRUE

\* a faulty dir_remove that marks the short-name entry only
dir_remove_short_entry(w, dp) ==
    CHOOSE r \in {
      [l EXCEPT !.res = IF @ = "FR_NO_FILE" THEN "FR_INT_ERR" ELSE @]
    : l \in {remove_loop_dir(w, dp, dp.dptr)}} : TRUE

dir_remove(w, dp) ==
    CHOOSE r \in {
      IF s.res # "FR_OK" THEN s
      ELSE CHOOSE r2 \in {
             [l EXCEPT !.res = IF @ = "FR_NO_FILE" THEN "FR_INT_ERR" ELSE @]
           : l \in {remove_loop_dir(s.w, s.dp, dp.dptr)}} : TRUE
    : s \in {IF dp.blk_ofs = NOBLK THEN [w |-> w, dp |-> dp, res |-> "FR_OK"]
             ELSE Do("dir_sdi", <<w, dp, dp.blk_ofs>>)}} : TRUE

(*------------------------- path following --------------------------------*)
RECURSIVE follow_loop(_, _, _, _)
follow_loop(w, dp, path, i) ==
    CHOOSE r \in {
      IF f.res # "FR_OK"
      THEN IF f.res = "FR_NO_FILE" /\ "NS_LAST" \notin f.dp.ns
           THEN [f EXCEPT !.res = "FR_NO_PATH"] ELSE f
      ELSE IF "NS_LAST" \in f.dp.ns THEN f
      ELSE IF ~HasBit(f.dp.attr, AM_DIR) THEN [f EXCEPT !.res = "FR_NO_PATH"]
      ELSE follow_loop(f.w, [f.dp EXCEPT !.sclust = ld_clust(f.w, f.dp.dptr % SS)],
                       path, i + 1)
    : f \in {Do("dir_find", <<w, create_name(dp, path[i], i = Len(path))>>)}} : TRUE

follow_path(w, dp, path) ==
    IF path = <<>>
    THEN Do("dir_sdi", <<w, [dp EXCEPT !.sclust = 0, !.ns = {"NS_NONAME"}], 0>>)
    ELSE follow_loop(w, [dp EXCEPT !.sclust = 0], path, 1)

Do(fn, a) ==
    CASE fn = "sync_window" -> sync_window(a[1])
      [] fn = "move_window" -> move_window(a[1], a[2])
      [] fn = "sync_fs" -> sync_fs(a[1])
      [] fn = "get_fat" -> get_fat(a[1], a[2])
      [] fn = "put_fat" -> put_fat(a[1], a[2], a[3])
      [] fn = "remove_chain" -> remove_chain(a[1], a[2], a[3])
      [] fn = "create_chain" -> create_chain(a[1], a[2])
      [] fn = "dir_clear" -> dir_clear(a[1], a[2])
      [] fn = "dir_sdi" -> dir_sdi(a[1], a[2], a[3])
      [] fn = "dir_next" -> dir_next(a[1], a[2], a[3])
      [] fn = "dir_alloc" -> dir_alloc(a[1], a[2], a[3])
      [] fn = "dir_read" -> dir_read(a[1], a[2], a[3])
      [] fn = "dir_find" -> dir_find(a[1], a[2])
      [] fn = "dir_register" -> dir_register(a[1], a[2])
      [] fn = "dir_remove" -> dir_remove(a[1], a[2])
      [] fn = "follow_path" -> follow_path(a[1], a[2], a[3])

(*------------------------- file sharing control --------------------------*)
Slots == 1..FF_FS_LOCK
TheFs == 1              \* the address of the one FATFS object (0 is NULL)

First(S) == CHOOSE i \in S : \A j \in S : i <= j

SameObj(F, i, dp) == F[i].fs = TheFs /\ F[i].clu = dp.sclust /\ F[i].ofs = dp.dptr

chk_share(F, dp, acc) ==
    LET hit == {i \in Slots : F[i].fs # 0 /\ SameObj(F, i, dp)}
        be == \E i \in Slots : F[i].fs = 0 IN
    IF hit = {}
    THEN IF ~be /\ acc # 2 THEN "FR_TOO_MANY_OPEN_FILES" ELSE "FR_OK"
    ELSE IF acc # 0 \/ F[First(hit)].ctr = 256 THEN "FR_LOCKED" ELSE "FR_OK"

enq_share(F) == \E i \in Slots : F[i].fs = 0

inc_share(F, dp, acc) ==
    LET hit == {i \in Slots : SameObj(F, i, dp)}
        blank == {i \in Slots : F[i].fs = 0} IN
    IF hit = {} /\ blank = {} THEN [F |-> F, id |-> 0]
    ELSE LET i == IF hit # {} THEN First(hit) ELSE First(blank)
             F1 == IF hit # {} THEN F
                   ELSE [F EXCEPT ![i] = [fs |-> TheFs, clu |-> dp.sclust,
                                          ofs |-> dp.dptr, ctr |-> 0]] IN
         IF acc >= 1 /\ F1[i].ctr # 0 THEN [F |-> F1, id |-> 0]
         ELSE [F |-> [F1 EXCEPT ![i].ctr = IF acc # 0 THEN 256 ELSE @ + 1],
               id |-> i]

dec_share(F, id) ==
    IF USub(id, 1) < FF_FS_LOCK
    THEN LET n0 == IF F[id].ctr = 256 THEN 0 ELSE F[id].ctr
             n == IF n0 > 0 THEN n0 - 1 ELSE n0 IN
         [F |-> [F EXCEPT ![id].ctr = n, ![id].fs = IF n = 0 THEN 0 ELSE @],
          res |-> "FR_OK"]
    ELSE [F |-> F, res |-> "FR_INT_ERR"]

(*------------------------- mounting --------------------------------------*)
\* The boot sector is kept as a record of its BPB fields, named as the
\* offsets of the code are; every other sector is an array of SS bytes.
MAX_FAT12 == 4085               \* 0xFF5
MAX_FAT16 == 65525              \* 0xFFF5
MAX_FAT32 == 268435445          \* 0x0FFFFFF5
JmpBoots == {235, 233, 232}     \* 0xEB, 0xE9, 0xE8
Sign55AA == 43605               \* 0xAA55

IsPow2(x) == \E k \in 0..30 : x = 2 ^ k

clear_share(F) == [i \in Slots |-> IF F[i].fs = TheFs THEN [F[i] EXCEPT !.fs = 0] ELSE F[i]]

\* what the sector in the window is: 0 a FAT VBR, 2 a valid boot sector that
\* is not FAT, 3 no boot sector; ss is the sector size of the configuration
vbr_kind(win, ss) ==
    IF /\ win.BS_JmpBoot \in JmpBoots
       /\ \/ win.BS_55AA = Sign55AA /\ win.BS_FilSysType32 = "FAT32   "
          \/ /\ IsPow2(win.BPB_BytsPerSec)
             /\ win.BPB_BytsPerSec >= ss /\ win.BPB_BytsPerSec <= ss
             /\ IsPow2(win.BPB_SecPerClus)
             /\ win.BPB_NumFATs \in {1, 2}
             /\ win.BPB_RootEntCnt # 0
             /\ win.BPB_FATSz16 # 0
    THEN 0
    ELSE IF win.BS_55AA = Sign55AA THEN 2 ELSE 3

check_fs(w, sect) ==
    CHOOSE r \in {
      [w |-> m.w, fmt |-> IF m.res # "FR_OK" THEN 4 ELSE vbr_kind(m.w.fs.win, SS)]
    : m \in {Do("move_window",
                <<[w EXCEPT !.fs.wflag = 0, !.fs.winsect = DISK_ERROR], sect>>)}} : TRUE

\* the analysis of the BPB in the window, the volume starting at bsect: the
\* same statements in mount_volume and in init_fatobj; ss is the sector size
\* and szdire the size of a directory entry
bpb_analyse(win, bsect, ss, szdire) ==
    LET fasize == IF win.BPB_FATSz16 = 0 THEN win.BPB_FATSz32 ELSE win.BPB_FATSz16
        n_fats == win.BPB_NumFATs
        csize == win.BPB_SecPerClus
        n_rootdir == win.BPB_RootEntCnt
        tsect == IF win.BPB_TotSec16 = 0 THEN win.BPB_TotSec32 ELSE win.BPB_TotSec16
        nrsv == win.BPB_RsvdSecCnt
        sysect == nrsv + fasize * n_fats + n_rootdir \div (ss \div szdire)
        nclst == (tsect - sysect) \div csize
        fmt == IF nclst <= MAX_FAT12 THEN FS_FAT12
               ELSE IF nclst <= MAX_FAT16 THEN FS_FAT16
               ELSE IF nclst <= MAX_FAT32 THEN FS_FAT32 ELSE 0
        n_fatent == nclst + 2
        szbfat == IF fmt = FS_FAT32 THEN n_fatent * 4
                  ELSE IF fmt = FS_FAT16 THEN n_fatent * 2
                  ELSE (n_fatent * 3) \div 2 + (n_fatent % 2)
    IN
    [ok |-> /\ win.BPB_BytsPerSec = ss
            /\ n_fats \in {1, 2}
            /\ IsPow2(csize)
            /\ n_rootdir % (ss \div szdire) = 0
            /\ nrsv # 0
            /\ tsect >= sysect
            /\ nclst # 0
            /\ fmt # 0
            /\ IF fmt = FS_FAT32 THEN win.BPB_FSVer32 = 0 /\ n_rootdir = 0
               ELSE n_rootdir # 0
            /\ fasize >= (szbfat + (ss - 1)) \div ss,
     fmt |-> fmt, fsize |-> fasize, n_fats |-> n_fats, csize |-> csize,
     n_rootdir |-> n_rootdir, n_fatent |-> n_fatent, volbase |-> bsect,
     fatbase |-> bsect + nrsv, database |-> bsect + sysect,
     dirbase |-> IF fmt = FS_FAT32 THEN win.BPB_RootClus32
                 ELSE bsect + nrsv + fasize * n_fats,
     fsinfo |-> fmt = FS_FAT32 /\ win.BPB_FSInfo32 = 1]

\* the FATFS object after a successful analysis g of the BPB; a FAT32 volume
\* with an FSINFO sector gets its allocation hints from there
fs_setup(w, g, id) ==
    CHOOSE r \in {
      [f.w EXCEPT !.fs.fs_type = g.fmt, !.fs.id = id]
    : f \in {IF ~g.fsinfo THEN [w |-> v, res |-> "FR_NO_FILE"]
             ELSE CHOOSE r2 \in {
                    IF m.res # "FR_OK" THEN m
                    ELSE [m EXCEPT
                            !.w.fs.fsi_flag = 0,
                            !.w.fs.free_clst =
                                IF m.w.fs.win.BS_55AA = Sign55AA
                                   /\ m.w.fs.win.FSI_LeadSig = "RRaA"
                                   /\ m.w.fs.win.FSI_StrucSig = "rrAa"
                                THEN m.w.fs.win.FSI_Free_Count ELSE @,
                            !.w.fs.last_clst =
                                IF m.w.fs.win.BS_55AA = Sign55AA
                                   /\ m.w.fs.win.FSI_LeadSig = "RRaA"
                                   /\ m.w.fs.win.FSI_StrucSig = "rrAa"
                                THEN m.w.fs.win.FSI_Nxt_Free ELSE @]
                  : m \in {Do("move_window", <<v, g.volbase + 1>>)}} : TRUE
             : v \in {[w EXCEPT !.fs.fsize = g.fsize, !.fs.n_fats = g.n_fats,
                                !.fs.csize = g.csize, !.fs.n_rootdir = g.n_rootdir,
                                !.fs.n_fatent = g.n_fatent, !.fs.volbase = g.volbase,
                                !.fs.fatbase = g.fatbase, !.fs.database = g.database,
                                !.fs.dirbase = g.dirbase,
                                !.fs.last_clst = DISK_ERROR,
                                !.fs.free_clst = DISK_ERROR,
                                !.fs.fsi_flag = 128]}}} : TRUE

\* mount_volume for the one logical drive: reg is FatFs[0], sid is Fsid.  The
\* drive has no partition table, so that find_volume is check_fs of sector 0.
\* A mount that fails leaves the geometry of the FATFS object as it was.
mount_volume(w, F, reg, sid) ==
    IF reg = 0 THEN [w |-> w, F |-> F, Fsid |-> sid, res |-> "FR_NOT_ENABLED"]
    ELSE IF w.fs.fs_type # 0 THEN [w |-> w, F |-> F, Fsid |-> sid, res |-> "FR_OK"]
    ELSE CHOOSE r \in {
           IF c.fmt = 4 THEN [w |-> c.w, F |-> F, Fsid |-> sid, res |-> "FR_DISK_ERR"]
           ELSE IF c.fmt >= 2
           THEN [w |-> c.w, F |-> F, Fsid |-> sid, res |-> "FR_NO_FILESYSTEM"]
           ELSE CHOOSE r2 \in {
                  IF ~g.ok
                  THEN [w |-> c.w, F |-> F, Fsid |-> sid, res |-> "FR_NO_FILESYSTEM"]
                  ELSE [w |-> fs_setup(c.w, g, (sid + 1) % 65536),
                        F |-> clear_share(F), Fsid |-> (sid + 1) % 65536,
                        res |-> "FR_OK"]
                : g \in {bpb_analyse(c.w.fs.win, c.w.fs.winsect, SS, SZDIRE)}} : TRUE
         : c \in {check_fs(w, 0)}} : TRUE

\* f_mount(fs, path, opt) with fs the one FATFS object (nfs = TheFs) or NULL
f_mount(w, F, reg, sid, nfs, opt) ==
    CHOOSE r \in {
      IF opt = 0 THEN [w |-> a[1], F |-> a[2], FatFs |-> nfs, Fsid |-> sid, res |-> "FR_OK"]
      ELSE mount_volume(a[1], a[2], nfs, sid) @@ [FatFs |-> nfs]
    : a \in {<<IF reg # 0 \/ nfs # 0 THEN [w EXCEPT !.fs.fs_type = 0] ELSE w,
               IF reg # 0 THEN clear_share(F) ELSE F>>}} : TRUE

\* find_fat_partition and init_fatobj, the mount of the build for LiteOS-A:
\* the boot sector is found as by find_volume and the mount ID is set to 0
init_fatobj(w) ==
    CHOOSE r \in {
      IF c.fmt = 4 THEN [w |-> c.w, res |-> "FR_DISK_ERR"]
      ELSE IF c.fmt >= 2 THEN [w |-> c.w, res |-> "FR_NO_FILESYSTEM"]
      ELSE CHOOSE r2 \in {
             IF ~g.ok THEN [w |-> c.w, res |-> "FR_NO_FILESYSTEM"]
             ELSE [w |-> fs_setup(c.w, g, 0), res |-> "FR_OK"]
           : g \in {bpb_analyse(c.w.fs.win, c.w.fs.winsect, SS, SZDIRE)}} : TRUE
    : c \in {check_fs(w, 0)}} : TRUE

(*------------------------- file objects ----------------------------------*)
\* a FIL the caller has zero-initialised and never opened
BlankFil == [fs |-> 0, id |-> 0, sclust |-> 0, objsize |-> 0, lockid |-> 0,
             flag |-> {}, err |-> "FR_OK", fptr |-> 0, clust |-> 0, sect |-> 0,
             buf |-> ZeroSect, dir_sect |-> 0, dir_ptr |-> 0]

validate(w, fp) ==
    IF fp.fs # 0 /\ w.fs.fs_type # 0 /\ fp.id = w.fs.id THEN "FR_OK"
    ELSE "FR_INVALID_OBJECT"

OpenModes == {"FA_READ", "FA_WRITE", "FA_CREATE_ALWAYS", "FA_CREATE_NEW",
              "FA_OPEN_ALWAYS", "FA_SEEKEND"}

\* the chain walk of f_open for FA_SEEKEND
RECURSIVE seekend_loop(_, _, _)
seekend_loop(w, clst, ofs) ==
    IF ofs <= BCS THEN [w |-> w, clst |-> clst, ofs |-> ofs, res |-> "FR_OK"]
    ELSE CHOOSE r \in {
           IF g.val = DISK_ERROR
           THEN [w |-> g.w, clst |-> g.val, ofs |-> ofs - BCS, res |-> "FR_DISK_ERR"]
           ELSE IF g.val <= 1
           THEN [w |-> g.w, clst |-> g.val, ofs |-> ofs - BCS, res |-> "FR_INT_ERR"]
           ELSE seekend_loop(g.w, g.val, ofs - BCS)
         : g \in {Do("get_fat", <<w, clst>>)}} : TRUE

\* the FA_SEEKEND part of f_open: walk to the last cluster and fill the
\* sector buffer when the end of the file is inside a sector
seek_end(w, F, fp) ==
    CHOOSE r \in {
      IF sk.res = "FR_OK" /\ sk.ofs % SS # 0
      THEN IF clst2sect(sk.clst) = 0
           THEN [w |-> sk.w, F |-> F, res |-> "FR_INT_ERR",
                 fp |-> [fp EXCEPT !.fptr = fp.objsize, !.clust = sk.clst]]
           ELSE CHOOSE r2 \in {
                  [w |-> d.w, F |-> F,
                   fp |-> [fp EXCEPT !.fptr = fp.objsize, !.clust = sk.clst,
                                     !.sect = clst2sect(sk.clst) + sk.ofs \div SS,
                                     !.buf = d.buf],
                   res |-> IF d.ok THEN "FR_OK" ELSE "FR_DISK_ERR"]
                : d \in {disk_read(sk.w, fp.buf, clst2sect(sk.clst) + sk.ofs \div SS)}}
                : TRUE
      ELSE [w |-> sk.w, F |-> F, res |-> sk.res,
            fp |-> [fp EXCEPT !.fptr = fp.objsize, !.clust = sk.clst]]
    : sk \in {seekend_loop(w, fp.sclust, fp.objsize)}} : TRUE

\* f_open from the point where the object is ready to be opened (res = FR_OK
\* after the create/open decision): lock it and fill in the file object
open_object(w, F, fp, dj, mode0, fill) ==
    CHOOSE r \in {
      IF inc.id = 0
      THEN [w |-> w, F |-> inc.F, res |-> "FR_INT_ERR",
            fp |-> [fp EXCEPT !.dir_sect = w.fs.winsect, !.dir_ptr = dj.dptr % SS,
                              !.lockid = inc.id]]
      ELSE CHOOSE r2 \in {
             IF "FA_SEEKEND" \in fp2.flag /\ fp2.objsize > 0
             THEN seek_end(w, inc.F, fp2)
             ELSE [w |-> w, F |-> inc.F, fp |-> fp2, res |-> "FR_OK"]
           : fp2 \in {[fp EXCEPT
                         !.dir_sect = w.fs.winsect, !.dir_ptr = dj.dptr % SS,
                         !.lockid = inc.id,
                         !.sclust = ld_clust(w, dj.dptr % SS),
                         !.objsize = w.fs.win[(dj.dptr % SS) + DIR_FileSize],
                         !.fs = TheFs, !.id = w.fs.id,
                         !.flag = IF "FA_CREATE_ALWAYS" \in mode0
                                  THEN mode0 \cup {"FA_MODIFIED"} ELSE mode0,
                         !.err = "FR_OK", !.sect = 0, !.fptr = 0,
                         !.buf = [i \in 0..(SS - 1) |-> fill]]}} : TRUE
    : inc \in {inc_share(F, dj, IF mode0 \ {"FA_READ"} # {} THEN 1 ELSE 0)}} : TRUE

\* a faulty truncation that resets the entry and leaves the chain allocated
open_truncate_keeping_chain(w, dj, cl, mode) ==
    [w |-> w, dp |-> dj, res |-> "FR_OK", mode |-> mode]

\* the truncation of f_open for an object that is created or overwritten:
\* cl is its old start cluster, w its world with the entry reset
open_truncate(w, dj, cl, mode) ==
    IF cl = 0 THEN [w |-> w, dp |-> dj, res |-> "FR_OK", mode |-> mode]
    ELSE CHOOSE r \in {
           IF rm.res # "FR_OK" THEN [w |-> rm.w, dp |-> dj, res |-> rm.res, mode |-> mode]
           ELSE CHOOSE r2 \in {
                  [w |-> [m.w EXCEPT !.fs.last_clst = cl - 1], dp |-> dj,
                   res |-> m.res, mode |-> mode]
                : m \in {Do("move_window", <<rm.w, w.fs.winsect>>)}} : TRUE
         : rm \in {Do("remove_chain", <<w, cl, 0>>)}} : TRUE

\* the create branch of f_open: the entry is registered or reused
open_create(w, F, dj, res0, mode0) ==
    CHOOSE r \in {
      IF cr.res = "FR_OK" /\ (res0 # "FR_OK" \/ "FA_CREATE_ALWAYS" \in mode0)
      THEN open_truncate([st_clust(cr.w, cr.dp.dptr % SS, 0) EXCEPT
                            !.fs.win[(cr.dp.dptr % SS) + DIR_Attr] = AM_ARC,
                            !.fs.win[(cr.dp.dptr % SS) + DIR_FileSize] = 0,
                            !.fs.wflag = 1],
                         cr.dp, ld_clust(cr.w, cr.dp.dptr % SS),
                         mode0 \cup {"FA_CREATE_ALWAYS"})
      ELSE [w |-> cr.w, dp |-> cr.dp, res |-> cr.res, mode |-> mode0]
    : cr \in {IF res0 # "FR_OK"
              THEN IF res0 = "FR_NO_FILE" /\ "FA_OPEN_ALWAYS" \in mode0
                   THEN IF enq_share(F) THEN Do("dir_register", <<w, dj>>)
                        ELSE [w |-> w, dp |-> dj, res |-> "FR_TOO_MANY_OPEN_FILES"]
                   ELSE [w |-> w, dp |-> dj, res |-> res0]
              ELSE IF HasBit(dj.attr, AM_RDO) \/ HasBit(dj.attr, AM_DIR)
              THEN [w |-> w, dp |-> dj, res |-> "FR_IS_DIR"]
              ELSE IF "FA_CREATE_NEW" \in mode0
              THEN [w |-> w, dp |-> dj, res |-> "FR_EXIST"]
              ELSE [w |-> w, dp |-> dj, res |-> "FR_OK"]}} : TRUE

\* f_open up to the create/open decision: the object exists or is created
open_decide(w, F, dj, res0, mode0) ==
    IF mode0 \cap {"FA_CREATE_ALWAYS", "FA_OPEN_ALWAYS", "FA_CREATE_NEW"} # {}
    THEN open_create(w, F, dj, res0, mode0)
    ELSE [w |-> w, dp |-> dj, mode |-> mode0,
          res |-> IF res0 # "FR_OK" THEN res0
                  ELSE IF HasBit(dj.attr, AM_DIR) THEN "FR_IS_DIR"
                  ELSE IF "FA_WRITE" \in mode0 /\ HasBit(dj.attr, AM_RDO) THEN "FR_DENIED"
                  ELSE "FR_OK"]

f_open(w, F, fp, path, mode_in, fill) ==
    CHOOSE r \in {
      CHOOSE r2 \in {
        CHOOSE r3 \in {
          IF op.res # "FR_OK"
          THEN [w |-> op.w, F |-> dec_share(op.F, op.fp.lockid).F, res |-> op.res,
                fp |-> [op.fp EXCEPT !.fs = 0]]
          ELSE op
        : op \in {IF de.res = "FR_OK"
                  THEN open_object(de.w, F, fp, de.dp, de.mode, fill)
                  ELSE [w |-> de.w, F |-> F, fp |-> fp, res |-> de.res]}} : TRUE
      : de \in {open_decide(fo.w, F, fo.dp,
                            IF fo.res # "FR_OK" THEN fo.res
                            ELSE IF "NS_NONAME" \in fo.dp.ns THEN "FR_INVALID_NAME"
                            ELSE chk_share(F, fo.dp,
                                           IF (mode_in \cap OpenModes) \ {"FA_READ"} # {}
                                           THEN 1 ELSE 0),
                            mode_in \cap OpenModes)}} : TRUE
    : fo \in {Do("follow_path", <<w, NewDir, path>>)}} : TRUE

(*------------------------- read / write ----------------------------------*)
\* disk_read of cc consecutive sectors into the caller's memory
disk_readv(w, sect, cc) ==
    IF (w.io + 1) \in w.fail \/ sect < 0 \/ sect + cc > NSECT
    THEN [w |-> [w EXCEPT !.io = @ + 1], ok |-> FALSE, bufs |-> <<>>]
    ELSE [w |-> [w EXCEPT !.io = @ + 1], ok |-> TRUE,
          bufs |-> [k \in 1..cc |-> w.disk[sect + k - 1]]]

\* the bytes of a run of sector buffers, and the k-th sector of a byte string
Flatten(bufs) == [i \in 1..(Len(bufs) * SS) |-> bufs[((i - 1) \div SS) + 1][(i - 1) % SS]]

SectOf(d, k) == [i \in 0..(SS - 1) |-> d[k * SS + i + 1]]

\* ABORT(fs, res): latch the error in the file object and leave
ABORT(w, fp, res) == [w |-> w, fp |-> [fp EXCEPT !.err = res], res |-> res]

RECURSIVE read_file(_, _, _, _)
\* f_read on a sector boundary through the sector cache of the file object
read_cached(w, fp, btr, out, sect) ==
    CHOOSE r \in {
      IF ~wb.ok THEN ABORT(wb.w, fp, "FR_DISK_ERR") @@ [out |-> out]
      ELSE CHOOSE r2 \in {
             IF ~rd.ok
             THEN ABORT(rd.w, [fp EXCEPT !.flag = IF fp.sect # sect THEN @ \ {"FA_DIRTY"}
                                                   ELSE @],
                        "FR_DISK_ERR") @@ [out |-> out]
             ELSE read_file(rd.w,
                            [fp EXCEPT !.flag = IF fp.sect # sect THEN @ \ {"FA_DIRTY"}
                                                ELSE @,
                                       !.buf = rd.buf, !.sect = sect,
                                       !.fptr = @ + Min(SS, btr)],
                            btr - Min(SS, btr),
                            out \o [i \in 1..Min(SS, btr) |-> rd.buf[i - 1]])
           : rd \in {IF fp.sect # sect THEN disk_read(wb.w, fp.buf, sect)
                     ELSE [w |-> wb.w, ok |-> TRUE, buf |-> fp.buf]}} : TRUE
    : wb \in {IF fp.sect # sect /\ "FA_DIRTY" \in fp.flag
              THEN disk_write(w, <<fp.buf>>, fp.sect)
              ELSE [w |-> w, ok |-> TRUE]}} : TRUE

\* f_read on a sector boundary, the current cluster being settled
read_sector(w, fp, btr, out, sect, cc) ==
    IF clst2sect(fp.clust) = 0 THEN ABORT(w, fp, "FR_INT_ERR") @@ [out |-> out]
    ELSE IF cc > 0
    THEN CHOOSE r \in {
           IF ~d.ok THEN ABORT(d.w, fp, "FR_DISK_ERR") @@ [out |-> out]
           ELSE read_file(d.w, [fp EXCEPT !.fptr = @ + SS * cc], btr - SS * cc,
                          out \o Flatten(IF "FA_DIRTY" \in fp.flag
                                            /\ USub(fp.sect, sect) < cc
                                         THEN [d.bufs EXCEPT ![fp.sect - sect + 1] = fp.buf]
                                         ELSE d.bufs))
         : d \in {disk_readv(w, sect, cc)}} : TRUE
    ELSE read_cached(w, fp, btr, out, sect)

\* one turn of the loop of f_read
read_step(w, fp, btr, out) ==
    IF fp.fptr % SS # 0
    THEN read_file(w, [fp EXCEPT !.fptr = @ + Min(SS - (fp.fptr % SS), btr)],
                   btr - Min(SS - (fp.fptr % SS), btr),
                   out \o [i \in 1..Min(SS - (fp.fptr % SS), btr) |->
                             fp.buf[(fp.fptr % SS) + i - 1]])
    ELSE IF (fp.fptr \div SS) % CSIZE # 0
    THEN read_sector(w, fp, btr, out,
                     clst2sect(fp.clust) + ((fp.fptr \div SS) % CSIZE),
                     Min(btr \div SS, CSIZE - ((fp.fptr \div SS) % CSIZE)))
    ELSE CHOOSE r \in {
           IF g.val < 2 THEN ABORT(g.w, fp, "FR_INT_ERR") @@ [out |-> out]
           ELSE IF g.val = DISK_ERROR THEN ABORT(g.w, fp, "FR_DISK_ERR") @@ [out |-> out]
           ELSE read_sector(g.w, [fp EXCEPT !.clust = g.val], btr, out,
                            clst2sect(g.val), Min(btr \div SS, CSIZE))
         : g \in {IF fp.fptr = 0 THEN [w |-> w, val |-> fp.sclust]
                  ELSE Do("get_fat", <<w, fp.clust>>)}} : TRUE

read_file(w, fp, btr, out) ==
    IF btr <= 0 THEN [w |-> w, fp |-> fp, res |-> "FR_OK", out |-> out]
    ELSE CHOOSE r \in {read_step(a[1], a[2], a[3], a[4]) : a \in {<<w, fp, btr, out>>}}
         : TRUE

f_read(w, fp, btr) ==
    IF validate(w, fp) # "FR_OK"
    THEN [w |-> w, fp |-> fp, res |-> validate(w, fp), out |-> <<>>]
    ELSE IF fp.err # "FR_OK" THEN [w |-> w, fp |-> fp, res |-> fp.err, out |-> <<>>]
    ELSE IF "FA_READ" \notin fp.flag
    THEN [w |-> w, fp |-> fp, res |-> "FR_NO_EPERM", out |-> <<>>]
    ELSE read_file(w, fp, Min(btr, USub(fp.objsize, fp.fptr)), <<>>)

\* a faulty loop increment that moves the pointer and forgets the size
AdvanceKeepingSize(fp, wcnt) == [fp EXCEPT !.fptr = @ + wcnt]

\* the loop increment of f_write: advance by wcnt bytes
Advance(fp, wcnt) ==
    [fp EXCEPT !.fptr = @ + wcnt, !.objsize = Max(fp.fptr + wcnt, @)]

RECURSIVE write_file(_, _, _, _)
\* f_write on a sector boundary after the write-back of the sector cache
write_data(w, fp, d, bw, sect, cc) ==
    IF clst2sect(fp.clust) = 0 THEN ABORT(w, fp, "FR_INT_ERR") @@ [bw |-> bw]
    ELSE IF cc > 0
    THEN CHOOSE r \in {
           IF ~dw.ok THEN ABORT(dw.w, fp, "FR_DISK_ERR") @@ [bw |-> bw]
           ELSE write_file(dw.w,
                           Advance(IF USub(fp.sect, sect) < cc
                                   THEN [fp EXCEPT !.buf = SectOf(d, fp.sect - sect),
                                                   !.flag = @ \ {"FA_DIRTY"}]
                                   ELSE fp, SS * cc),
                           SubSeq(d, SS * cc + 1, Len(d)), bw + SS * cc)
         : dw \in {disk_write(w, [k \in 1..cc |-> SectOf(d, k - 1)], sect)}} : TRUE
    ELSE CHOOSE r \in {
           IF ~rd.ok THEN ABORT(rd.w, fp, "FR_DISK_ERR") @@ [bw |-> bw]
           ELSE write_file(rd.w,
                           Advance([fp EXCEPT
                                      !.sect = sect,
                                      !.buf = [i \in 0..(SS - 1) |->
                                                 IF i < Min(SS, Len(d)) THEN d[i + 1]
                                                 ELSE rd.buf[i]],
                                      !.flag = @ \cup {"FA_DIRTY"}], Min(SS, Len(d))),
                           SubSeq(d, Min(SS, Len(d)) + 1, Len(d)), bw + Min(SS, Len(d)))
         : rd \in {IF fp.sect # sect /\ fp.fptr < fp.objsize
                   THEN disk_read(w, fp.buf, sect)
                   ELSE [w |-> w, ok |-> TRUE, buf |-> fp.buf]}} : TRUE

\* f_write on a sector boundary, the current cluster being settled
write_sector(w, fp, d, bw, csect) ==
    CHOOSE r \in {
      IF ~wb.ok THEN ABORT(wb.w, fp, "FR_DISK_ERR") @@ [bw |-> bw]
      ELSE write_data(wb.w, [fp EXCEPT !.flag = @ \ {"FA_DIRTY"}], d, bw,
                      clst2sect(fp.clust) + csect, Min(Len(d) \div SS, CSIZE - csect))
    : wb \in {IF "FA_DIRTY" \in fp.flag THEN disk_write(w, <<fp.buf>>, fp.sect)
              ELSE [w |-> w, ok |-> TRUE]}} : TRUE

\* one turn of the loop of f_write
write_step(w, fp, d, bw) ==
    IF fp.fptr % SS # 0
    THEN write_file(w,
                    Advance([fp EXCEPT
                               !.buf = [i \in 0..(SS - 1) |->
                                          IF i >= fp.fptr % SS
                                             /\ i < (fp.fptr % SS)
                                                    + Min(SS - (fp.fptr % SS), Len(d))
                                          THEN d[i - (fp.fptr % SS) + 1]
                                          ELSE @[i]],
                               !.flag = @ \cup {"FA_DIRTY"}],
                            Min(SS - (fp.fptr % SS), Len(d))),
                    SubSeq(d, Min(SS - (fp.fptr % SS), Len(d)) + 1, Len(d)),
                    bw + Min(SS - (fp.fptr % SS), Len(d)))
    ELSE IF (fp.fptr \div SS) % CSIZE # 0
    THEN write_sector(w, fp, d, bw, (fp.fptr \div SS) % CSIZE)
    ELSE CHOOSE r \in {
           IF c.val = 0 THEN [w |-> c.w, fp |-> fp, res |-> "FR_NO_SPACE_LEFT", bw |-> bw]
           ELSE IF c.val = 1 THEN ABORT(c.w, fp, "FR_INT_ERR") @@ [bw |-> bw]
           ELSE IF c.val = DISK_ERROR THEN ABORT(c.w, fp, "FR_DISK_ERR") @@ [bw |-> bw]
           ELSE write_sector(c.w, [fp EXCEPT !.clust = c.val,
                                             !.sclust = IF @ = 0 THEN c.val ELSE @],
                             d, bw, 0)
         : c \in {IF fp.fptr = 0
                  THEN IF fp.sclust = 0 THEN Do("create_chain", <<w, 0>>)
                       ELSE [w |-> w, val |-> fp.sclust]
                  ELSE Do("create_chain", <<w, fp.clust>>)}} : TRUE

write_file(w, fp, d, bw) ==
    IF Len(d) = 0 THEN [w |-> w, fp |-> fp, res |-> "FR_OK", bw |-> bw]
    ELSE CHOOSE r \in {write_step(a[1], a[2], a[3], a[4]) : a \in {<<w, fp, d, bw>>}}
         : TRUE

\* a faulty f_write that treats a full volume as a fatal error of the handle
f_write_latching(w, fp, data) ==
    IF validate(w, fp) # "FR_OK"
    THEN [w |-> w, fp |-> fp, res |-> validate(w, fp), bw |-> 0]
    ELSE IF fp.err # "FR_OK" THEN [w |-> w, fp |-> fp, res |-> fp.err, bw |-> 0]
    ELSE IF "FA_WRITE" \notin fp.flag
    THEN [w |-> w, fp |-> fp, res |-> "FR_NO_EPERM", bw |-> 0]
    ELSE CHOOSE r \in {
           IF l.res = "FR_OK" THEN [l EXCEPT !.fp.flag = @ \cup {"FA_MODIFIED"}]
           ELSE IF l.res = "FR_NO_SPACE_LEFT"
           THEN [l EXCEPT !.fp.flag = @ \cup {"FA_MODIFIED"}, !.fp.err = l.res]
           ELSE l
         : l \in {write_file(w, fp,
                             IF UAdd(fp.fptr, Len(data)) < fp.fptr
                             THEN SubSeq(data, 1, DISK_ERROR - fp.fptr) ELSE data,
                             0)}} : TRUE

f_write(w, fp, data) ==
    IF validate(w, fp) # "FR_OK"
    THEN [w |-> w, fp |-> fp, res |-> validate(w, fp), bw |-> 0]
    ELSE IF fp.err # "FR_OK" THEN [w |-> w, fp |-> fp, res |-> fp.err, bw |-> 0]
    ELSE IF "FA_WRITE" \notin fp.flag
    THEN [w |-> w, fp |-> fp, res |-> "FR_NO_EPERM", bw |-> 0]
    ELSE CHOOSE r \in {
           IF l.res \in {"FR_OK", "FR_NO_SPACE_LEFT"}
           THEN [l EXCEPT !.fp.flag = @ \cup {"FA_MODIFIED"}]
           ELSE l
         : l \in {write_file(w, fp,
                             IF UAdd(fp.fptr, Len(data)) < fp.fptr
                             THEN SubSeq(data, 1, DISK_ERROR - fp.fptr) ELSE data,
                             0)}} : TRUE

\* f_sync after the write-back of the sector cache: update the directory
\* entry of the file and flush the volume
sync_entry(w, fp) ==
    CHOOSE r \in {
      IF m.res # "FR_OK" THEN [w |-> m.w, fp |-> fp, res |-> m.res]
      ELSE CHOOSE r2 \in {
             [w |-> s.w, fp |-> [fp EXCEPT !.flag = @ \ {"FA_MODIFIED"}], res |-> s.res]
           : s \in {Do("sync_fs",
                       <<[st_clust(m.w, fp.dir_ptr, fp.sclust) EXCEPT
                            !.fs.win[fp.dir_ptr + DIR_Attr] = SetBit(@, AM_ARC),
                            !.fs.win[fp.dir_ptr + DIR_FileSize] = fp.objsize,
                            !.fs.wflag = 1]>>)}} : TRUE
    : m \in {Do("move_window", <<w, fp.dir_sect>>)}} : TRUE

\* a faulty f_sync that leaves a dirty sector cache unwritten
f_sync_keeping_cache(w, fp) ==
    IF validate(w, fp) # "FR_OK" THEN [w |-> w, fp |-> fp, res |-> validate(w, fp)]
    ELSE IF "FA_MODIFIED" \notin fp.flag THEN [w |-> w, fp |-> fp, res |-> "FR_OK"]
    ELSE sync_entry(w, fp)

f_sync(w, fp) ==
    IF validate(w, fp) # "FR_OK" THEN [w |-> w, fp |-> fp, res |-> validate(w, fp)]
    ELSE IF "FA_MODIFIED" \notin fp.flag THEN [w |-> w, fp |-> fp, res |-> "FR_OK"]
    ELSE CHOOSE r \in {
           IF ~wb.ok THEN [w |-> wb.w, fp |-> fp, res |-> "FR_DISK_ERR"]
           ELSE sync_entry(wb.w, [fp EXCEPT !.flag = @ \ {"FA_DIRTY"}])
         : wb \in {IF "FA_DIRTY" \in fp.flag THEN disk_write(w, <<fp.buf>>, fp.sect)
                   ELSE [w |-> w, ok |-> TRUE]}} : TRUE

f_close(w, F, fp) ==
    CHOOSE r \in {
      IF s.res \in {"FR_OK", "FR_DISK_ERR"}
      THEN IF validate(s.w, s.fp) # "FR_OK"
           THEN [w |-> s.w, F |-> F, fp |-> s.fp, res |-> validate(s.w, s.fp)]
           ELSE CHOOSE r2 \in {
                  [w |-> s.w, F |-> d.F, res |-> d.res,
                   fp |-> IF d.res = "FR_OK" THEN [s.fp EXCEPT !.fs = 0] ELSE s.fp]
                : d \in {dec_share(F, s.fp.lockid)}} : TRUE
      ELSE [w |-> s.w, F |-> F, fp |-> s.fp, res |-> s.res]
    : s \in {f_sync(w, fp)}} : TRUE

(*------------------------- seek / truncate -------------------------------*)
FAT12_END_OF_CLUSTER == 4095

get_end_of_cluster(w) ==
    IF w.fs.fs_type = FS_FAT12 THEN FAT12_END_OF_CLUSTER
    ELSE IF w.fs.fs_type = FS_FAT16 THEN 65535
    ELSE IF w.fs.fs_type = FS_FAT32 THEN 268435455
    ELSE DISK_ERROR

\* the end of f_lseek: extend the size if the pointer passed it and fill
\* the sector cache for the sector nsect the pointer is now in
seek_fill(w, fp, nsect, res) ==
    IF fp.fptr % SS # 0 /\ nsect # fp.sect
    THEN CHOOSE r \in {
           IF ~wb.ok
           THEN ABORT(wb.w, [fp EXCEPT !.objsize = Max(@, fp.fptr),
                                       !.flag = IF fp.fptr > fp.objsize
                                                THEN @ \cup {"FA_MODIFIED"} ELSE @],
                      "FR_DISK_ERR")
           ELSE CHOOSE r2 \in {
                  IF ~rd.ok
                  THEN ABORT(rd.w, [fp EXCEPT
                                      !.objsize = Max(@, fp.fptr),
                                      !.flag = (IF fp.fptr > fp.objsize
                                                THEN @ \cup {"FA_MODIFIED"} ELSE @)
                                               \ {"FA_DIRTY"}],
                             "FR_DISK_ERR")
                  ELSE [w |-> rd.w, res |-> res,
                        fp |-> [fp EXCEPT
                                  !.objsize = Max(@, fp.fptr),
                                  !.flag = (IF fp.fptr > fp.objsize
                                            THEN @ \cup {"FA_MODIFIED"} ELSE @)
                                           \ {"FA_DIRTY"},
                                  !.buf = rd.buf, !.sect = nsect]]
                : rd \in {disk_read(wb.w, fp.buf, nsect)}} : TRUE
         : wb \in {IF "FA_DIRTY" \in fp.flag THEN disk_write(w, <<fp.buf>>, fp.sect)
                   ELSE [w |-> w, ok |-> TRUE]}} : TRUE
    ELSE [w |-> w, res |-> res,
          fp |-> [fp EXCEPT !.objsize = Max(@, fp.fptr),
                            !.flag = IF fp.fptr > fp.objsize
                                     THEN @ \cup {"FA_MODIFIED"} ELSE @]]

\* the cluster following loop of f_lseek: ofs bytes to go from cluster clst
RECURSIVE seek_loop(_, _, _, _)
seek_loop(w, fp, clst, ofs) ==
    IF clst = 0 THEN seek_fill(w, fp, 0, "FR_OK")
    ELSE IF ofs > BCS
    THEN CHOOSE r \in {
           IF "FA_WRITE" \in fp.flag /\ c.val = 0
           THEN seek_fill(c.w, [fp EXCEPT !.fptr = @ + BCS], 0, "FR_NO_SPACE_LEFT")
           ELSE IF c.val = DISK_ERROR
           THEN ABORT(c.w, [fp EXCEPT !.fptr = @ + BCS], "FR_DISK_ERR")
           ELSE IF c.val <= 1 \/ c.val >= N_FATENT
           THEN ABORT(c.w, [fp EXCEPT !.fptr = @ + BCS], "FR_INT_ERR")
           ELSE seek_loop(c.w, [fp EXCEPT !.fptr = @ + BCS, !.clust = c.val],
                          c.val, ofs - BCS)
         : c \in {IF "FA_WRITE" \in fp.flag THEN Do("create_chain", <<w, clst>>)
                  ELSE Do("get_fat", <<w, clst>>)}} : TRUE
    ELSE IF ofs % SS # 0
    THEN IF clst2sect(clst) = 0
         THEN ABORT(w, [fp EXCEPT !.fptr = @ + ofs], "FR_INT_ERR")
         ELSE seek_fill(w, [fp EXCEPT !.fptr = @ + ofs],
                        clst2sect(clst) + ofs \div SS, "FR_OK")
    ELSE seek_fill(w, [fp EXCEPT !.fptr = @ + ofs], 0, "FR_OK")

\* f_lseek to ofs > 0 from the start of the chain
seek_from_start(w, fp, ofs) ==
    IF fp.sclust # 0
    THEN seek_loop(w, [fp EXCEPT !.fptr = 0, !.clust = fp.sclust], fp.sclust, ofs)
    ELSE CHOOSE r \in {
           IF c.val = 1 THEN ABORT(c.w, [fp EXCEPT !.fptr = 0], "FR_INT_ERR")
           ELSE IF c.val = DISK_ERROR THEN ABORT(c.w, [fp EXCEPT !.fptr = 0], "FR_DISK_ERR")
           ELSE IF c.val = 0
           THEN seek_fill(c.w, [fp EXCEPT !.fptr = 0, !.clust = 0], 0, "FR_NO_SPACE_LEFT")
           ELSE seek_loop(c.w, [fp EXCEPT !.fptr = 0, !.sclust = c.val, !.clust = c.val],
                          c.val, ofs)
         : c \in {Do("create_chain", <<w, 0>>)}} : TRUE

\* f_lseek in normal mode, the offset being clipped
seek_to(w, fp, ofs) ==
    IF ofs = 0 THEN seek_fill(w, [fp EXCEPT !.fptr = 0], 0, "FR_OK")
    ELSE IF fp.fptr > 0 /\ (ofs - 1) \div BCS >= (fp.fptr - 1) \div BCS
    THEN seek_loop(w, [fp EXCEPT !.fptr = ((fp.fptr - 1) \div BCS) * BCS], fp.clust,
                   ofs - ((fp.fptr - 1) \div BCS) * BCS)
    ELSE seek_from_start(w, fp, ofs)

\* f_lseek that does not clip the offset of a handle without write access
f_lseek_unclipped(w, fp, ofs) ==
    IF validate(w, fp) # "FR_OK" THEN [w |-> w, fp |-> fp, res |-> validate(w, fp)]
    ELSE IF fp.err # "FR_OK" THEN [w |-> w, fp |-> fp, res |-> fp.err]
    ELSE seek_to(w, fp, ofs)

f_lseek(w, fp, ofs) ==
    IF validate(w, fp) # "FR_OK" THEN [w |-> w, fp |-> fp, res |-> validate(w, fp)]
    ELSE IF fp.err # "FR_OK" THEN [w |-> w, fp |-> fp, res |-> fp.err]
    ELSE seek_to(w, fp, IF ofs > fp.objsize /\ "FA_WRITE" \notin fp.flag
                        THEN fp.objsize ELSE ofs)

\* the loop of f_truncate that walks to the last cluster to keep
RECURSIVE trunc_walk(_, _, _, _)
trunc_walk(w, val, count, tcl) ==
    CHOOSE r \in {
      IF count + 1 = tcl THEN [w |-> g.w, val |-> g.val, fclust |-> val]
      ELSE IF g.val # get_end_of_cluster(w) /\ g.val # 1 /\ g.val # DISK_ERROR
      THEN trunc_walk(g.w, g.val, count + 1, tcl)
      ELSE [w |-> g.w, val |-> g.val, fclust |-> val]
    : g \in {Do("get_fat", <<w, val>>)}} : TRUE

\* the removal of f_truncate: res and the cluster fclust the chain ends at
trunc_chain(w, fp, length) ==
    IF fp.fptr = 0 /\ length = 0
    THEN CHOOSE r \in {
           [w |-> rm.w, res |-> rm.res, fclust |-> 0, fp |-> [fp EXCEPT !.sclust = 0]]
         : rm \in {Do("remove_chain", <<w, fp.sclust, 0>>)}} : TRUE
    ELSE CHOOSE r \in {
           IF t.val = 1 THEN [w |-> t.w, res |-> "FR_INT_ERR", fclust |-> t.fclust, fp |-> fp]
           ELSE IF t.val = DISK_ERROR
           THEN [w |-> t.w, res |-> "FR_DISK_ERR", fclust |-> t.fclust, fp |-> fp]
           ELSE IF t.val < N_FATENT
           THEN CHOOSE r2 \in {
                  [w |-> rm.w, res |-> rm.res, fclust |-> t.fclust, fp |-> fp]
                : rm \in {Do("remove_chain", <<t.w, t.val, t.fclust>>)}} : TRUE
           ELSE [w |-> t.w, res |-> "FR_OK", fclust |-> t.fclust, fp |-> fp]
         : t \in {trunc_walk(w, fp.sclust, 0,
                             length \div BCS + (IF length % BCS # 0 THEN 1 ELSE 0))}}
         : TRUE

\* the end of f_truncate: set the size, write the sector cache back
trunc_finish(w, fp, length, fclust) ==
    CHOOSE r \in {
      IF ~wb.ok
      THEN ABORT(wb.w, [fp EXCEPT !.objsize = length,
                                  !.fptr = Min(@, length),
                                  !.clust = IF fp.fptr > length THEN fclust ELSE @,
                                  !.flag = @ \cup {"FA_MODIFIED"}], "FR_DISK_ERR")
      ELSE [w |-> wb.w, res |-> "FR_OK",
            fp |-> [fp EXCEPT !.objsize = length,
                              !.fptr = Min(@, length),
                              !.clust = IF fp.fptr > length THEN fclust ELSE @,
                              !.flag = (@ \cup {"FA_MODIFIED"}) \ {"FA_DIRTY"}]]
    : wb \in {IF "FA_DIRTY" \in fp.flag
              THEN disk_write([w EXCEPT !.fs.last_clst = fclust], <<fp.buf>>, fp.sect)
              ELSE [w |-> [w EXCEPT !.fs.last_clst = fclust], ok |-> TRUE]}} : TRUE

f_truncate(w, fp, length) ==
    IF validate(w, fp) # "FR_OK" THEN [w |-> w, fp |-> fp, res |-> validate(w, fp)]
    ELSE IF fp.err # "FR_OK" THEN [w |-> w, fp |-> fp, res |-> fp.err]
    ELSE IF "FA_WRITE" \notin fp.flag THEN [w |-> w, fp |-> fp, res |-> "FR_NO_EPERM"]
    ELSE IF fp.fptr > fp.objsize THEN [w |-> w, fp |-> fp, res |-> "FR_OK"]
    ELSE CHOOSE r \in {
           IF c.res # "FR_OK"
           THEN ABORT(c.w, [c.fp EXCEPT !.flag = @ \cup {"FA_MODIFIED"}], c.res)
           ELSE trunc_finish(c.w, c.fp, length, c.fclust)
         : c \in {trunc_chain(w, fp, length)}} : TRUE

(*------------------------- unlink / mkdir / rename -----------------------*)
\* the test of f_unlink that a sub-directory with start cluster dclst is empty
unlink_check(w, attr, dclst) ==
    IF ~HasBit(attr, AM_DIR) THEN [w |-> w, res |-> "FR_OK"]
    ELSE CHOOSE r \in {
           IF s.res # "FR_OK" THEN [w |-> s.w, res |-> s.res]
           ELSE CHOOSE r2 \in {
                  [w |-> rd.w,
                   res |-> IF rd.res = "FR_OK" THEN "FR_NO_EMPTY_DIR"
                           ELSE IF rd.res = "FR_NO_FILE" THEN "FR_OK" ELSE rd.res]
                : rd \in {Do("dir_read", <<s.w, s.dp, FALSE>>)}} : TRUE
         : s \in {Do("dir_sdi", <<w, [NewDir EXCEPT !.sclust = dclst], 0>>)}} : TRUE

\* a faulty removal that deletes the entry and leaves the chain allocated
unlink_remove_keeping_chain(w, dp, dclst) ==
    CHOOSE r \in {
      IF dr.res # "FR_OK" THEN [w |-> dr.w, res |-> dr.res]
      ELSE Do("sync_fs", <<dr.w>>)
    : dr \in {Do("dir_remove", <<w, dp>>)}} : TRUE

\* the removal of f_unlink: the entry, then the chain, then the flush
unlink_remove(w, dp, dclst) ==
    CHOOSE r \in {
      IF dr.res # "FR_OK" THEN [w |-> dr.w, res |-> dr.res]
      ELSE CHOOSE r2 \in {
             IF rm.res # "FR_OK" THEN [w |-> rm.w, res |-> rm.res]
             ELSE Do("sync_fs", <<rm.w>>)
           : rm \in {IF dclst # 0 THEN Do("remove_chain", <<dr.w, dclst, 0>>)
                     ELSE [w |-> dr.w, res |-> "FR_OK"]}} : TRUE
    : dr \in {Do("dir_remove", <<w, dp>>)}} : TRUE

f_unlink(w, F, path) ==
    CHOOSE r \in {
      IF fo.res # "FR_OK" THEN [w |-> fo.w, res |-> fo.res]
      ELSE IF chk_share(F, fo.dp, 2) # "FR_OK"
      THEN [w |-> fo.w, res |-> chk_share(F, fo.dp, 2)]
      ELSE IF "NS_NONAME" \in fo.dp.ns THEN [w |-> fo.w, res |-> "FR_INVALID_NAME"]
      ELSE IF HasBit(fo.dp.attr, AM_RDO) THEN [w |-> fo.w, res |-> "FR_DENIED"]
      ELSE CHOOSE r2 \in {
             IF ck.res # "FR_OK" THEN ck
             ELSE unlink_remove(ck.w, fo.dp, ld_clust(fo.w, fo.dp.dptr % SS))
           : ck \in {unlink_check(fo.w, fo.dp.attr, ld_clust(fo.w, fo.dp.dptr % SS))}}
           : TRUE
    : fo \in {Do("follow_path", <<w, NewDir, path>>)}} : TRUE

\* the first sector of a new directory: the "." and ".." entries
DotEntries(dcl, pcl) ==
    [i \in 0..(SS - 1) |->
        IF i = DIR_Name THEN DOT
        ELSE IF i = DIR_Attr \/ i = SZDIRE + DIR_Attr THEN AM_DIR
        ELSE IF i = DIR_FstClusLO THEN dcl
        ELSE IF i = SZDIRE + DIR_Name THEN DOTDOT
        ELSE IF i = SZDIRE + DIR_FstClusLO THEN pcl
        ELSE 0]

\* the loop of f_mkdir that writes the dot entries and clears the cluster
RECURSIVE mkdir_fill(_, _, _)
mkdir_fill(w, dsc, n) ==
    IF n = 0 THEN [w |-> w, res |-> "FR_OK"]
    ELSE CHOOSE r \in {
           IF s.res # "FR_OK" THEN s
           ELSE mkdir_fill([s.w EXCEPT !.fs.win = ZeroSect], dsc + 1, n - 1)
         : s \in {Do("sync_window", <<[w EXCEPT !.fs.winsect = dsc, !.fs.wflag = 1]>>)}}
         : TRUE

\* f_mkdir after the cluster dcl has been allocated: flush the FAT,
\* initialize the table and register the entry
mkdir_table(w, dj, dcl) ==
    CHOOSE r \in {
      IF s.res # "FR_OK" THEN s
      ELSE CHOOSE r2 \in {
             IF f.res # "FR_OK" THEN f
             ELSE CHOOSE r3 \in {
                    IF rg.res # "FR_OK" THEN [w |-> rg.w, res |-> rg.res]
                    ELSE Do("sync_fs",
                            <<[st_clust(rg.w, rg.dp.dptr % SS, dcl) EXCEPT
                                 !.fs.win[(rg.dp.dptr % SS) + DIR_Attr] = AM_DIR,
                                 !.fs.wflag = 1]>>)
                  : rg \in {Do("dir_register", <<f.w, dj>>)}} : TRUE
           : f \in {mkdir_fill([s.w EXCEPT !.fs.win = DotEntries(dcl, dj.sclust)],
                               clst2sect(dcl), CSIZE)}} : TRUE
    : s \in {Do("sync_window", <<w>>)}} : TRUE

f_mkdir(w, path) ==
    CHOOSE r \in {
      IF fo.res = "FR_OK" THEN [w |-> fo.w, res |-> "FR_EXIST"]
      ELSE IF fo.res # "FR_NO_FILE" THEN [w |-> fo.w, res |-> fo.res]
      ELSE CHOOSE r2 \in {
             CHOOSE r3 \in {
               IF m.res = "FR_OK" THEN m
               ELSE [w |-> Do("remove_chain", <<m.w, c.val, 0>>).w, res |-> m.res]
             : m \in {IF c.val = 0 THEN [w |-> c.w, res |-> "FR_NO_SPACE_LEFT"]
                      ELSE IF c.val = 1 THEN [w |-> c.w, res |-> "FR_INT_ERR"]
                      ELSE IF c.val = DISK_ERROR THEN [w |-> c.w, res |-> "FR_DISK_ERR"]
                      ELSE mkdir_table(c.w, fo.dp, c.val)}} : TRUE
           : c \in {Do("create_chain", <<fo.w, 0>>)}} : TRUE
    : fo \in {Do("follow_path", <<w, NewDir, path>>)}} : TRUE

\* the update of the ".." entry of a directory moved to another directory
rename_dotdot(w, dp, sclust) ==
    IF clst2sect(ld_clust(w, dp.dptr % SS)) = 0 THEN [w |-> w, res |-> "FR_INT_ERR"]
    ELSE CHOOSE r \in {
           IF m.res = "FR_OK" /\ (m.w.fs.win[SZDIRE + DIR_Name] \div 256) % 256 = DOT
           THEN [w |-> [st_clust(m.w, SZDIRE, sclust) EXCEPT !.fs.wflag = 1],
                 res |-> "FR_OK"]
           ELSE m
         : m \in {Do("move_window", <<w, clst2sect(ld_clust(w, dp.dptr % SS))>>)}} : TRUE

\* a faulty f_rename that registers the new name and removes the old entry
\* without copying the saved entry
rename_entry_without_copy(w, djo, djn, buf) ==
    CHOOSE r \in {
      IF rg.res # "FR_OK" THEN [w |-> rg.w, res |-> rg.res]
      ELSE CHOOSE r2 \in {
             IF dr.res # "FR_OK" THEN [w |-> dr.w, res |-> dr.res]
             ELSE Do("sync_fs", <<dr.w>>)
           : dr \in {Do("dir_remove", <<rg.w, djo>>)}} : TRUE
    : rg \in {Do("dir_register", <<w, djn>>)}} : TRUE

\* f_rename once the new name is known to be free: register it, copy the
\* saved entry buf except the name, remove the old entry
rename_entry(w, djo, djn, buf) ==
    CHOOSE r \in {
      IF rg.res # "FR_OK" THEN [w |-> rg.w, res |-> rg.res]
      ELSE CHOOSE r2 \in {
             IF up.res # "FR_OK" THEN up
             ELSE CHOOSE r3 \in {
                    IF dr.res # "FR_OK" THEN [w |-> dr.w, res |-> dr.res]
                    ELSE Do("sync_fs", <<dr.w>>)
                  : dr \in {Do("dir_remove", <<up.w, djo>>)}} : TRUE
           : up \in {IF HasBit(buf[DIR_Attr + 1], AM_DIR) /\ djo.sclust # rg.dp.sclust
                     THEN rename_dotdot(
                            [rg.w EXCEPT
                               !.fs.win[(rg.dp.dptr % SS) + DIR_FstClusLO] =
                                   buf[DIR_FstClusLO + 1],
                               !.fs.win[(rg.dp.dptr % SS) + DIR_FileSize] =
                                   buf[DIR_FileSize + 1],
                               !.fs.win[(rg.dp.dptr % SS) + DIR_Attr] = buf[DIR_Attr + 1],
                               !.fs.wflag = 1],
                            rg.dp, rg.dp.sclust)
                     ELSE [w |-> [rg.w EXCEPT
                                    !.fs.win[(rg.dp.dptr % SS) + DIR_FstClusLO] =
                                        buf[DIR_FstClusLO + 1],
                                    !.fs.win[(rg.dp.dptr % SS) + DIR_FileSize] =
                                        buf[DIR_FileSize + 1],
                                    !.fs.win[(rg.dp.dptr % SS) + DIR_Attr] =
                                        IF HasBit(buf[DIR_Attr + 1], AM_DIR)
                                        THEN buf[DIR_Attr + 1]
                                        ELSE SetBit(buf[DIR_Attr + 1], AM_ARC),
                                    !.fs.wflag = 1],
                           res |-> "FR_OK"]}} : TRUE
    : rg \in {Do("dir_register", <<w, djn>>)}} : TRUE

f_rename(w, F, path_old, path_new) ==
    CHOOSE r \in {
      IF fo.res # "FR_OK" THEN [w |-> fo.w, res |-> fo.res]
      ELSE IF fo.dp.ns \cap {"NS_DOT", "NS_NONAME"} # {}
      THEN [w |-> fo.w, res |-> "FR_INVALID_NAME"]
      ELSE IF chk_share(F, fo.dp, 2) # "FR_OK"
      THEN [w |-> fo.w, res |-> chk_share(F, fo.dp, 2)]
      ELSE CHOOSE r2 \in {
             IF fn.res = "FR_OK" THEN [w |-> fn.w, res |-> "FR_EXIST"]
             ELSE IF fn.res # "FR_NO_FILE" THEN [w |-> fn.w, res |-> fn.res]
             ELSE rename_entry(fn.w, fo.dp, fn.dp,
                               [k \in 1..SZDIRE |-> DirCell(fo.w, fo.dp, k - 1)])
           : fn \in {Do("follow_path", <<fo.w, fo.dp, path_new>>)}} : TRUE
    : fo \in {Do("follow_path", <<w, NewDir, path_old>>)}} : TRUE

(*------------------------- the state machine -----------------------------*)
\* disk and fs are the volume, Files the lock registry, fil the file objects
\* of the callers, ret the outcome of the last API call.  model is the
\* reference the properties compare with: the bytes each name must hold, the
\* name each handle has open, the bytes a handle has written sequentially
\* into a file it found empty (-1 otherwise), and the number of calls made.
Handles == {1, 2}
NoFail == {}

\* the world an API call starts in: the device fails the calls in fail
World(fail) == [disk |-> disk, fs |-> fs, io |-> 0, fail |-> fail]

\* the boot sector of the volume with the geometry above
BootSect ==
    [BS_JmpBoot |-> 235, BPB_BytsPerSec |-> SS, BPB_SecPerClus |-> CSIZE,
     BPB_RsvdSecCnt |-> FATBASE - VOLBASE, BPB_NumFATs |-> N_FATS,
     BPB_RootEntCnt |-> N_ROOTDIR, BPB_TotSec16 |-> NSECT, BPB_FATSz16 |-> FSIZE,
     BPB_TotSec32 |-> 0, BPB_FATSz32 |-> 0, BPB_FSVer32 |-> 0, BPB_RootClus32 |-> 0,
     BPB_FSInfo32 |-> 0, BS_FilSysType32 |-> "", BS_55AA |-> Sign55AA]

\* a freshly formatted volume: both FATs hold the two reserved entries
FormattedFat == [i \in 0..(SS - 1) |-> IF i = 0 THEN 248 ELSE IF i < 3 THEN 255 ELSE 0]

EmptyDisk == [s \in 0..(NSECT - 1) |->
                IF s = VOLBASE THEN BootSect
                ELSE IF s = FATBASE \/ s = FATBASE + FSIZE THEN FormattedFat
                ELSE ZeroSect]

\* the FATFS object as mount_volume leaves it
MountedFs == [fs_type |-> FS_FAT12, win |-> BootSect, winsect |-> VOLBASE, wflag |-> 0,
              last_clst |-> DISK_ERROR, free_clst |-> DISK_ERROR, fsi_flag |-> 128,
              id |-> 1, fsize |-> FSIZE, n_fats |-> N_FATS, csize |-> CSIZE,
              n_rootdir |-> N_ROOTDIR, n_fatent |-> N_FATENT, volbase |-> VOLBASE,
              fatbase |-> FATBASE, database |-> DATABASE, dirbase |-> DIRBASE]

BlankFiles == [i \in Slots |-> [fs |-> 0, clu |-> 0, ofs |-> 0, ctr |-> 0]]

NoRet == [op |-> "none", h |-> 0, res |-> "FR_OK", n |-> 0, io |-> 0, data |-> <<>>,
          path |-> <<>>, arg |-> 0, pos |-> 0, size |-> 0, mode |-> {},
          before |-> <<>>, req |-> 0, rel |-> 0]

NoModel == [data |-> [n \in Names |-> <<>>], at |-> [h \in Handles |-> "-"],
            seq |-> [h \in Handles |-> 0 - 1], ops |-> 0, stale |-> {}]

\* the byte the caller writes at file position p in a write tagged t
Pattern(t, p) == 1 + ((t * 101 + p * 7) % 255)

DataAt(t, p, len) == [i \in 1..len |-> Pattern(t, p + i - 1)]

\* the reference content after n bytes of d went in at position p
Overwrite(old, p, d, n) ==
    [i \in 1..Max(Len(old), p + n) |->
        IF i > p /\ i <= p + n THEN d[i - p]
        ELSE IF i <= Len(old) THEN old[i] ELSE 0 - 1]

Init ==
    /\ disk = EmptyDisk
    /\ fs = MountedFs
    /\ FatFs = TheFs
    /\ Fsid = 1
    /\ Files = BlankFiles
    /\ fil = [h \in Handles |-> BlankFil]
    /\ ret = NoRet
    /\ model = NoModel

F_open(h, path, mode, fill, fail) ==
    /\ fil[h].fs = 0
    /\ \E r \in {f_open(World(fail), Files, fil[h], path, mode, fill)} :
         /\ disk' = r.w.disk
         /\ fs' = r.w.fs
         /\ Files' = r.F
         /\ UNCHANGED <<FatFs, Fsid>>
         /\ fil' = [fil EXCEPT ![h] = r.fp]
         /\ ret' = [NoRet EXCEPT !.op = "f_open", !.h = h, !.res = r.res, !.io = r.w.io,
                                 !.path = path, !.mode = mode]
         /\ model' = IF r.res = "FR_OK"
                     THEN [model EXCEPT
                             !.ops = @ + 1, !.at[h] = path[Len(path)],
                             !.stale = @ \ {h},
                             !.seq[h] = IF r.fp.objsize = 0 /\ r.fp.sclust = 0
                                           /\ "FA_WRITE" \in r.fp.flag
                                        THEN 0 ELSE 0 - 1,
                             !.data[path[Len(path)]] =
                                 IF "FA_CREATE_ALWAYS" \in r.fp.flag THEN <<>> ELSE @]
                     ELSE [model EXCEPT !.ops = @ + 1]

F_write(h, len, tag, fail) ==
    /\ fil[h].fs # 0
    /\ \E r \in {f_write(World(fail), fil[h], DataAt(tag, fil[h].fptr, len))} :
         /\ disk' = r.w.disk
         /\ fs' = r.w.fs
         /\ fil' = [fil EXCEPT ![h] = r.fp]
         /\ ret' = [NoRet EXCEPT !.op = "f_write", !.h = h, !.res = r.res, !.io = r.w.io,
                                 !.n = r.bw, !.arg = len, !.pos = fil[h].fptr,
                                 !.size = fil[h].objsize]
         /\ model' = [model EXCEPT
                        !.ops = @ + 1,
                        !.seq[h] = IF @ >= 0 /\ r.res = "FR_OK" /\ r.bw = len
                                   THEN @ + len ELSE 0 - 1,
                        !.data[model.at[h]] =
                            Overwrite(@, fil[h].fptr, DataAt(tag, fil[h].fptr, len), r.bw)]
         /\ UNCHANGED <<Files, FatFs, Fsid>>

F_read(h, len, fail) ==
    /\ fil[h].fs # 0
    /\ \E r \in {f_read(World(fail), fil[h], len)} :
         /\ disk' = r.w.disk
         /\ fs' = r.w.fs
         /\ fil' = [fil EXCEPT ![h] = r.fp]
         /\ ret' = [NoRet EXCEPT !.op = "f_read", !.h = h, !.res = r.res, !.io = r.w.io,
                                 !.n = Len(r.out), !.data = r.out, !.arg = len,
                                 !.pos = fil[h].fptr]
         /\ model' = [model EXCEPT !.ops = @ + 1]
         /\ UNCHANGED <<Files, FatFs, Fsid>>

F_sync(h, fail) ==
    /\ fil[h].fs # 0
    /\ \E r \in {f_sync(World(fail), fil[h])} :
         /\ disk' = r.w.disk
         /\ fs' = r.w.fs
         /\ fil' = [fil EXCEPT ![h] = r.fp]
         /\ ret' = [NoRet EXCEPT !.op = "f_sync", !.h = h, !.res = r.res, !.io = r.w.io]
         /\ model' = [model EXCEPT !.ops = @ + 1]
         /\ UNCHANGED <<Files, FatFs, Fsid>>

F_close(h, fail) ==
    /\ fil[h].fs # 0
    /\ \E r \in {f_close(World(fail), Files, fil[h])} :
         /\ disk' = r.w.disk
         /\ fs' = r.w.fs
         /\ Files' = r.F
         /\ UNCHANGED <<FatFs, Fsid>>
         /\ fil' = [fil EXCEPT ![h] = r.fp]
         /\ ret' = [NoRet EXCEPT !.op = "f_close", !.h = h, !.res = r.res, !.io = r.w.io]
         /\ model' = [model EXCEPT !.ops = @ + 1,
                                   !.at[h] = IF r.fp.fs = 0 THEN "-" ELSE @,
                                   !.seq[h] = IF r.fp.fs = 0 THEN 0 - 1 ELSE @]

\* the reference content cut or extended (with unknown bytes) to n bytes
Resize(old, n) == [i \in 1..n |-> IF i <= Len(old) THEN old[i] ELSE 0 - 1]

F_lseek(h, ofs, fail) ==
    /\ fil[h].fs # 0
    /\ \E r \in {f_lseek(World(fail), fil[h], ofs)} :
         /\ disk' = r.w.disk
         /\ fs' = r.w.fs
         /\ fil' = [fil EXCEPT ![h] = r.fp]
         /\ ret' = [NoRet EXCEPT !.op = "f_lseek", !.h = h, !.res = r.res, !.io = r.w.io,
                                 !.arg = ofs, !.pos = fil[h].fptr]
         /\ model' = [model EXCEPT
                        !.ops = @ + 1, !.seq[h] = 0 - 1,
                        !.data[model.at[h]] = Resize(@, Max(Len(@), r.fp.objsize))]
         /\ UNCHANGED <<Files, FatFs, Fsid>>

F_truncate(h, length, fail) ==
    /\ fil[h].fs # 0
    /\ \E r \in {f_truncate(World(fail), fil[h], length)} :
         /\ disk' = r.w.disk
         /\ fs' = r.w.fs
         /\ fil' = [fil EXCEPT ![h] = r.fp]
         /\ ret' = [NoRet EXCEPT !.op = "f_truncate", !.h = h, !.res = r.res,
                                 !.io = r.w.io, !.arg = length, !.pos = fil[h].fptr]
         /\ model' = [model EXCEPT
                        !.ops = @ + 1, !.seq[h] = 0 - 1,
                        !.data[model.at[h]] = Resize(@, r.fp.objsize)]
         /\ UNCHANGED <<Files, FatFs, Fsid>>

F_unlink(path, fail) ==
    \E r \in {f_unlink(World(fail), Files, path)} :
      /\ disk' = r.w.disk
      /\ fs' = r.w.fs
      /\ ret' = [NoRet EXCEPT !.op = "f_unlink", !.res = r.res, !.io = r.w.io,
                              !.path = path, !.n = Len(model.data[path[Len(path)]])]
      /\ model' = [model EXCEPT
                     !.ops = @ + 1,
                     !.data[path[Len(path)]] = IF r.res = "FR_OK" THEN <<>> ELSE @]
      /\ UNCHANGED <<Files, fil, FatFs, Fsid>>

F_mkdir(path, fail) ==
    \E r \in {f_mkdir(World(fail), path)} :
      /\ disk' = r.w.disk
      /\ fs' = r.w.fs
      /\ ret' = [NoRet EXCEPT !.op = "f_mkdir", !.res = r.res, !.io = r.w.io,
                              !.path = path]
      /\ model' = [model EXCEPT !.ops = @ + 1]
      /\ UNCHANGED <<Files, fil, FatFs, Fsid>>

F_rename(path_old, path_new, fail) ==
    \E r \in {f_rename(World(fail), Files, path_old, path_new)} :
      /\ disk' = r.w.disk
      /\ fs' = r.w.fs
      /\ ret' = [NoRet EXCEPT !.op = "f_rename", !.res = r.res, !.io = r.w.io,
                              !.path = path_old, !.data = path_new,
                              !.before = [disk |-> disk, fs |-> fs]]
      /\ model' = [model EXCEPT
                     !.ops = @ + 1,
                     !.data = IF r.res = "FR_OK"
                              THEN [@ EXCEPT ![path_new[Len(path_new)]] =
                                                 model.data[path_old[Len(path_old)]],
                                             ![path_old[Len(path_old)]] = <<>>]
                              ELSE @]
      /\ UNCHANGED <<Files, fil, FatFs, Fsid>>

(*------------------------- sequential read and write ---------------------*)
\* A volume on which file "B" holds clusters 2, 3 and 4, so that one
\* cluster is free: what creating "B" and writing 3 clusters leaves behind.
NearlyFullDisk ==
    [s \in 0..(NSECT - 1) |->
        IF s = VOLBASE THEN BootSect
        ELSE IF s = FATBASE \/ s = FATBASE + FSIZE
        THEN [i \in 0..(SS - 1) |-> <<248, 255, 255, 3, 64, 0, 255, 15>>[i + 1]]
        ELSE IF s = DIRBASE
        THEN [i \in 0..(SS - 1) |-> <<66, AM_ARC, 2, 3 * BCS, 0, 0, 0, 0>>[i + 1]]
        ELSE IF s >= DATABASE /\ s < DATABASE + 3 * CSIZE
        THEN [i \in 0..(SS - 1) |-> Pattern(2, (s - DATABASE) * SS + i)]
        ELSE ZeroSect]

InitRW ==
    /\ disk \in {EmptyDisk, NearlyFullDisk}
    /\ fs = MountedFs
    /\ FatFs = TheFs
    /\ Fsid = 1
    /\ Files = BlankFiles
    /\ fil = [h \in Handles |-> BlankFil]
    /\ ret = NoRet
    /\ model = [NoModel EXCEPT !.data["B"] = DataAt(2, 0, 3 * BCS)]

\* File "A" is written through one handle and, after that handle is closed,
\* read back through another, in pieces of the lengths below; the device
\* never fails.
MaxLen == 3
MaxOpsRW == 7
WriteLens == {MaxLen, SS, BCS + 1}
ReadLens == {MaxLen, SS + 1, 2 * BCS}
CreateMode == {"FA_OPEN_ALWAYS", "FA_WRITE", "FA_READ"}
ReadMode == {"FA_READ"}
Writer == 1
Reader == 2

OpenRW ==
    /\ model.ops < MaxOpsRW
    /\ \/ fil[Reader].fs = 0 /\ F_open(Writer, <<"A">>, CreateMode, 0, NoFail)
       \/ fil[Writer].fs = 0 /\ F_open(Reader, <<"A">>, ReadMode, 0, NoFail)

WriteRW ==
    /\ model.ops < MaxOpsRW
    /\ \E len \in WriteLens : F_write(Writer, len, model.ops, NoFail)

ReadRW ==
    /\ model.ops < MaxOpsRW
    /\ \E h \in Handles : \E len \in ReadLens : F_read(h, len, NoFail)

SeekRW ==
    /\ model.ops < MaxOpsRW
    /\ F_lseek(Writer, 0, NoFail)

SyncRW ==
    /\ model.ops < MaxOpsRW
    /\ F_sync(Writer, NoFail)

CloseRW ==
    /\ model.ops < MaxOpsRW
    /\ \E h \in Handles : F_close(h, NoFail)

NextRW == OpenRW \/ WriteRW \/ ReadRW \/ SeekRW \/ SyncRW \/ CloseRW

SpecRW == InitRW /\ [][NextRW]_vars

(*------------------------- observers -------------------------------------*)
\* the volume d, f as a world without device failures
Quiet(d, f) == [disk |-> d, fs |-> f, io |-> 0, fail |-> {}]

\* the FAT entry of cluster c as the volume d, f holds it
FatIn(d, f, c) == get_fat(Quiet(d, f), c).val

\* the k-th cluster (from 0) of the chain that starts at c, 0 past its end
RECURSIVE ClusterAt(_, _, _, _)
ClusterAt(d, f, c, k) ==
    IF c < 2 \/ c >= N_FATENT THEN 0
    ELSE IF k = 0 THEN c
    ELSE ClusterAt(d, f, FatIn(d, f, c), k - 1)

\* the number of clusters of the chain that starts at c
ChainLen(d, f, c) == Cardinality({k \in 0..(N_FATENT - 1) : ClusterAt(d, f, c, k) # 0})

\* the clusters of the chain that starts at c
ChainOf(d, f, c) == {ClusterAt(d, f, c, k) : k \in 0..(N_FATENT - 1)} \ {0}

\* the byte at position p of the file open in fp: in the sector cache of fp
\* if that holds the sector, else on the disk
FileByte(d, f, fp, p) ==
    LET sect == clst2sect(ClusterAt(d, f, fp.sclust, p \div BCS)) + ((p \div SS) % CSIZE)
    IN IF fp.sect = sect THEN fp.buf[p % SS] ELSE d[sect][p % SS]

CeilDiv(a, b) == (a + b - 1) \div b

(*------------------------- properties of read and write ------------------*)
\* C1: what was written to "A" (in any split into writes), after f_close and
\* a fresh f_open for reading, comes back from f_read (in any split into
\* reads): each read returns the bytes of the written data at its position.
C1_RoundTrip ==
    (ret.op = "f_read" /\ ret.h = Reader /\ ret.res = "FR_OK")
    => ret.data = SubSeq(model.data["A"], ret.pos + 1,
                         ret.pos + Min(ret.arg, Len(model.data["A"]) - ret.pos))

\* a second read that crosses the cluster boundary of a file of two clusters
C1_Witness ==
    /\ ret.op = "f_read" /\ ret.h = Reader /\ ret.res = "FR_OK"
    /\ ret.pos > 0 /\ ret.n > 0 /\ ret.pos < BCS /\ ret.pos + ret.n > BCS

\* C2: while a handle writes sequentially into a file it found empty and
\* every f_write returns OK with the full count, the size is the number B of
\* bytes written and the chain has ceil(B / (csize * ss)) clusters.
C2_SizeAndChain ==
    \A h \in Handles :
        (fil[h].fs # 0 /\ model.seq[h] >= 0)
        => /\ fil[h].objsize = model.seq[h]
           /\ ChainLen(disk, fs, fil[h].sclust) = CeilDiv(model.seq[h], BCS)

\* a write that starts exactly at the end of a file one cluster long
C2_Witness ==
    /\ ret.op = "f_write" /\ ret.res = "FR_OK" /\ ret.pos = BCS /\ ret.n > 0
    /\ model.seq[Writer] > BCS
    /\ ChainLen(disk, fs, fil[Writer].sclust) = 2

\* the f_write that just returned ran out of free clusters
NoSpace == ret.op = "f_write" /\ ret.res = "FR_NO_SPACE_LEFT"

\* C10 as stated: on NO_SPACE_LEFT, fptr and objsize both advance by *bw.
C10_AdvanceBoth ==
    [][NoSpace' =>
         /\ fil'[ret'.h].fptr = fil[ret'.h].fptr + ret'.n
         /\ fil'[ret'.h].objsize = fil[ret'.h].objsize + ret'.n
         /\ fil'[ret'.h].err = "FR_OK"]_vars

\* C10 amended: on NO_SPACE_LEFT, *bw is short of the request and counts
\* the bytes stored, fptr advances by *bw, objsize becomes the larger of
\* its old value and the new fptr, no error is latched, and the next
\* f_read, f_lseek, f_sync or f_close on the handle returns OK.
C10_NoSpace ==
    [][/\ NoSpace' =>
            /\ ret'.n < ret'.arg
            /\ \A i \in 0..(ret'.n - 1) :
                   FileByte(disk', fs', fil'[ret'.h], ret'.pos + i)
                       = Pattern(model.ops, ret'.pos + i)
            /\ fil'[ret'.h].fptr = fil[ret'.h].fptr + ret'.n
            /\ fil'[ret'.h].objsize = Max(fil[ret'.h].objsize, fil'[ret'.h].fptr)
            /\ fil'[ret'.h].err = "FR_OK"
       /\ (NoSpace /\ ret'.h = ret.h
           /\ ret'.op \in {"f_read", "f_lseek", "f_sync", "f_close"})
          => ret'.res = "FR_OK"]_vars

\* a write into an existing file that ran out of space after storing bytes
\* below the old end of the file
C10_Witness ==
    /\ NoSpace /\ ret.n > 0 /\ ret.pos < ret.size
    /\ fil[ret.h].objsize = BCS

(*------------------------- opening and locking ---------------------------*)
\* A volume with file "A" (cluster 2, three bytes) and the empty file "B".
TwoFilesDisk ==
    [s \in 0..(NSECT - 1) |->
        IF s = VOLBASE THEN BootSect
        ELSE IF s = FATBASE \/ s = FATBASE + FSIZE
        THEN [i \in 0..(SS - 1) |-> <<248, 255, 255, 255, 15, 0, 0, 0>>[i + 1]]
        ELSE IF s = DIRBASE
        THEN [i \in 0..(SS - 1) |-> <<65, AM_ARC, 2, 3, 66, AM_ARC, 0, 0>>[i + 1]]
        ELSE IF s = DATABASE
        THEN [i \in 0..(SS - 1) |-> IF i < 3 THEN Pattern(1, i) ELSE 0]
        ELSE ZeroSect]

InitLock ==
    /\ disk = TwoFilesDisk
    /\ fs = MountedFs
    /\ FatFs = TheFs
    /\ Fsid = 1
    /\ Files = BlankFiles
    /\ fil = [h \in Handles |-> BlankFil]
    /\ ret = NoRet
    /\ model = [NoModel EXCEPT !.data["A"] = DataAt(1, 0, 3)]

\* Two callers open and close "A" and "B" in every mode, each with its own
\* FIL object, which it uses again for its next f_open.
MaxOpsLock == 6
WriteMode == {"FA_WRITE"}
UpdateMode == {"FA_READ", "FA_WRITE"}
LockPaths == {<<"A">>, <<"B">>}

OpenLock ==
    /\ model.ops < MaxOpsLock
    /\ \E h \in Handles : \E path \in LockPaths :
         \E mode \in {ReadMode, WriteMode, UpdateMode} :
           F_open(h, path, mode, 0, NoFail)

CloseLock ==
    /\ model.ops < MaxOpsLock
    /\ \E h \in Handles : F_close(h, NoFail)

NextOpen == OpenLock \/ CloseLock

SpecOpen == InitLock /\ [][NextOpen]_vars

\* ... and a third caller removes or renames the files.
UnlinkLock ==
    /\ model.ops < MaxOpsLock
    /\ \E path \in LockPaths : F_unlink(path, NoFail)

RenameLock ==
    /\ model.ops < MaxOpsLock
    /\ \E path \in LockPaths : F_rename(path, <<"D">>, NoFail)

NextLock == OpenLock \/ CloseLock \/ UnlinkLock \/ RenameLock

SpecLock == InitLock /\ [][NextLock]_vars

(*------------------------- properties of locking -------------------------*)
\* handle h holds a file open
IsOpen(h) == validate(Quiet(disk, fs), fil[h]) = "FR_OK"

\* two handles are on the same file: on the same directory entry
SameFile(h1, h2) ==
    fil[h1].dir_sect = fil[h2].dir_sect /\ fil[h1].dir_ptr = fil[h2].dir_ptr

\* the path names an object of the volume
Exists(path) == follow_path(Quiet(disk, fs), NewDir, path).res = "FR_OK"

\* some handle holds the file of that name open
OpenOn(name) == \E h \in DOMAIN model.at : IsOpen(h) /\ model.at[h] = name

\* C3: after any sequence of f_open and f_close, a file held open by a
\* handle with write access is held open by no other handle.
C3_WriteExclusive ==
    \A h1, h2 \in Handles :
        (h1 # h2 /\ IsOpen(h1) /\ IsOpen(h2) /\ SameFile(h1, h2))
        => "FA_WRITE" \notin fil[h1].flag

\* C4: f_unlink(p) and f_rename(p, q) return LOCKED and leave the volume as
\* it is while a handle on p is open; f_unlink(p) returns OK for an existing
\* p that no handle holds open.
C4_LockedWhileOpen ==
    [][ret'.op \in {"f_unlink", "f_rename"} =>
         IF OpenOn(ret'.path[1])
         THEN ret'.res = "FR_LOCKED" /\ disk' = disk
         ELSE (ret'.op = "f_unlink" /\ Exists(ret'.path)) => ret'.res = "FR_OK"]_vars

(*------------------------- truncation ------------------------------------*)
\* File "B" of three clusters is opened for update, positioned and
\* truncated to the lengths below, then synchronised; the device never fails.
InitTrunc ==
    /\ disk = NearlyFullDisk
    /\ fs = MountedFs
    /\ FatFs = TheFs
    /\ Fsid = 1
    /\ Files = BlankFiles
    /\ fil = [h \in Handles |-> BlankFil]
    /\ ret = NoRet
    /\ model = [NoModel EXCEPT !.data["B"] = DataAt(2, 0, 3 * BCS)]

MaxOpsTrunc == 5
SeekOfs == {0, MaxLen, BCS, 2 * BCS + 1}
TruncLens == {0, MaxLen, BCS, BCS + 1, 3 * BCS + 1}

OpenTrunc ==
    /\ model.ops < MaxOpsTrunc
    /\ F_open(Writer, <<"B">>, UpdateMode, 0, NoFail)

SeekTrunc ==
    /\ model.ops < MaxOpsTrunc
    /\ \E ofs \in SeekOfs : F_lseek(Writer, ofs, NoFail)

TruncateTrunc ==
    /\ model.ops < MaxOpsTrunc
    /\ \E length \in TruncLens : F_truncate(Writer, length, NoFail)

SyncTrunc ==
    /\ model.ops < MaxOpsTrunc
    /\ F_sync(Writer, NoFail)

CloseTrunc ==
    /\ model.ops < MaxOpsTrunc
    /\ F_close(Writer, NoFail)

NextTrunc == OpenTrunc \/ SeekTrunc \/ TruncateTrunc \/ SyncTrunc \/ CloseTrunc

SpecTrunc == InitTrunc /\ [][NextTrunc]_vars

(*------------------------- properties of truncation ----------------------*)
\* the size and the start cluster in the directory entry of fp on the disk
DirSize(d, fp) == d[fp.dir_sect][fp.dir_ptr + DIR_FileSize]

DirClust(d, fp) == d[fp.dir_sect][fp.dir_ptr + DIR_FstClusLO]

\* C5: when f_truncate(L) and the f_sync that follows it return OK, the
\* directory entry on the disk holds size L and the chain of the file has
\* ceil(L / (csize * ss)) clusters, also for L above the size.
C5_TruncateThenSync ==
    [][(/\ ret.op = "f_truncate" /\ ret.res = "FR_OK"
        /\ ret'.op = "f_sync" /\ ret'.h = ret.h /\ ret'.res = "FR_OK")
       => /\ DirSize(disk', fil'[ret.h]) = ret.arg
          /\ ChainLen(disk', fs', DirClust(disk', fil'[ret.h]))
               = CeilDiv(ret.arg, BCS)]_vars

\* C6: f_truncate to size 0 of a writable file that owns clusters, at any
\* position of the file pointer, frees every cluster of the chain and sets
\* sclust to 0.
C6_TruncateToZero ==
    [][(/\ ret'.op = "f_truncate" /\ ret'.arg = 0 /\ ret'.res = "FR_OK"
        /\ "FA_WRITE" \in fil[ret'.h].flag /\ fil[ret'.h].sclust # 0)
       => /\ \A c \in ChainOf(disk, fs, fil[ret'.h].sclust) : FatIn(disk', fs', c) = 0
          /\ fil'[ret'.h].sclust = 0]_vars

(*------------------------- removal ---------------------------------------*)
\* On an empty volume the files "A" and "L" (a long name) are created and
\* written, the directory "D" is made, and all three are removed again.
MaxOpsUnlink == 6
UnlinkPaths == {<<"A">>, <<"L">>, <<"D">>}

CreateUnlink ==
    /\ model.ops < MaxOpsUnlink
    /\ \E path \in {<<"A">>, <<"L">>} : F_open(Writer, path, CreateMode, 0, NoFail)

WriteUnlink ==
    /\ model.ops < MaxOpsUnlink
    /\ \E len \in {MaxLen, BCS + 1} : F_write(Writer, len, model.ops, NoFail)

CloseUnlink ==
    /\ model.ops < MaxOpsUnlink
    /\ F_close(Writer, NoFail)

MkdirUnlink ==
    /\ model.ops < MaxOpsUnlink
    /\ F_mkdir(<<"D">>, NoFail)

RemoveUnlink ==
    /\ model.ops < MaxOpsUnlink
    /\ \E path \in UnlinkPaths : F_unlink(path, NoFail)

NextUnlink == CreateUnlink \/ WriteUnlink \/ CloseUnlink \/ MkdirUnlink \/ RemoveUnlink

SpecUnlink == Init /\ [][NextUnlink]_vars

(*------------------------- properties of removal -------------------------*)
\* sector s as the volume holds it: in the window when the window is on s
Sector(d, f, s) == IF f.winsect = s THEN f.win ELSE d[s]

\* cell k of the root directory
RootCell(d, f, k) == Sector(d, f, DIRBASE + k \div SS)[k % SS]

\* what following the path finds on the volume d, f
Lookup(d, f, path) == follow_path(Quiet(d, f), NewDir, path)

\* the offset of the first directory entry of the object found: the first
\* entry of its long name, else its short-name entry
FirstEntry(dp) == IF dp.blk_ofs = NOBLK THEN dp.dptr ELSE dp.blk_ofs

\* C7: after f_unlink(p) returned OK the registry has no entry for p, every
\* cluster of the chain of p is free, no other FAT entry has changed, the
\* entries of p (the short name and the long-name fragments before it) are
\* marked deleted, no other directory cell has changed, and p is not found.
C7_UnlinkFrame ==
    [][(ret'.op = "f_unlink" /\ ret'.res = "FR_OK") =>
         \E old \in {Lookup(disk, fs, ret'.path)} :
           /\ old.res = "FR_OK"
           /\ \A i \in Slots : ~(Files'[i].fs # 0 /\ SameObj(Files', i, old.dp))
           /\ \A c \in 2..(N_FATENT - 1) :
                FatIn(disk', fs', c)
                  = IF c \in ChainOf(disk, fs, ld_clust(old.w, old.dp.dptr % SS))
                    THEN 0 ELSE FatIn(disk, fs, c)
           /\ \A k \in 0..(N_ROOTDIR * SZDIRE - 1) :
                IF k >= FirstEntry(old.dp) /\ k <= old.dp.dptr
                THEN IF k % SZDIRE = DIR_Name
                     THEN FirstByte(RootCell(disk', fs', k)) = DDEM
                     ELSE RootCell(disk', fs', k) = RootCell(disk, fs, k)
                ELSE RootCell(disk', fs', k) = RootCell(disk, fs, k)
           /\ Lookup(disk', fs', ret'.path).res = "FR_NO_FILE"]_vars

\* the long-named file, two clusters long, has been removed
C7_Witness ==
    /\ ret.op = "f_unlink" /\ ret.res = "FR_OK" /\ ret.path = <<"L">>
    /\ ret.n > BCS

(*------------------------- device failures -------------------------------*)
\* The device fails at most one call of an operation: one of its first
\* MaxFail calls.
MaxFail == 4
AnyFails == {{}} \cup {{k} : k \in 1..MaxFail}
WriteFails == {{}} \cup {{0 - k} : k \in 1..MaxFail}

\* File "A" is created, written and read while the device may fail a call
\* of f_write or f_read; the other operations on the handle follow.
MaxOpsSticky == 5

OpenSticky ==
    /\ model.ops < MaxOpsSticky
    /\ F_open(Writer, <<"A">>, CreateMode, 0, NoFail)

WriteSticky ==
    /\ model.ops < MaxOpsSticky
    /\ \E len \in {MaxLen, SS + 1} : \E fail \in AnyFails :
         F_write(Writer, len, model.ops, fail)

ReadSticky ==
    /\ model.ops < MaxOpsSticky
    /\ \E fail \in AnyFails : F_read(Writer, SS + 1, fail)

SeekSticky ==
    /\ model.ops < MaxOpsSticky
    /\ \E ofs \in {0, SS} : F_lseek(Writer, ofs, NoFail)

TruncateSticky ==
    /\ model.ops < MaxOpsSticky
    /\ \E length \in {0, MaxLen} : F_truncate(Writer, length, NoFail)

SyncSticky ==
    /\ model.ops < MaxOpsSticky
    /\ F_sync(Writer, NoFail)

CloseSticky ==
    /\ model.ops < MaxOpsSticky
    /\ F_close(Writer, NoFail)

NextSticky ==
    \/ OpenSticky \/ WriteSticky \/ ReadSticky \/ SeekSticky
    \/ TruncateSticky \/ SyncSticky \/ CloseSticky

SpecSticky == Init /\ [][NextSticky]_vars

\* Files are created, written, closed, removed and renamed and a directory
\* is made while the device may fail one disk_write of each operation that
\* synchronises the volume.
MaxOpsMirror == 5

OpenMirror ==
    /\ model.ops < MaxOpsMirror
    /\ F_open(Writer, <<"A">>, CreateMode, 0, NoFail)

WriteMirror ==
    /\ model.ops < MaxOpsMirror
    /\ F_write(Writer, MaxLen, model.ops, NoFail)

SyncMirror ==
    /\ model.ops < MaxOpsMirror
    /\ \E fail \in WriteFails : F_sync(Writer, fail)

CloseMirror ==
    /\ model.ops < MaxOpsMirror
    /\ \E fail \in WriteFails : F_close(Writer, fail)

UnlinkMirror ==
    /\ model.ops < MaxOpsMirror
    /\ \E fail \in WriteFails : F_unlink(<<"A">>, fail)

MkdirMirror ==
    /\ model.ops < MaxOpsMirror
    /\ \E fail \in WriteFails : F_mkdir(<<"D">>, fail)

RenameMirror ==
    /\ model.ops < MaxOpsMirror
    /\ \E fail \in WriteFails : F_rename(<<"A">>, <<"B">>, fail)

NextMirror ==
    \/ OpenMirror \/ WriteMirror \/ SyncMirror \/ CloseMirror
    \/ UnlinkMirror \/ MkdirMirror \/ RenameMirror

SpecMirror == Init /\ [][NextMirror]_vars

(*------------------------- properties under device failures --------------*)
\* every sector of FAT #2 equals the sector of FAT #1 it mirrors
FatsEqual == \A i \in 0..(FSIZE - 1) : disk[FATBASE + i] = disk[FATBASE + FSIZE + i]

\* C8: the two FATs being equal at mount, whenever f_sync, f_close,
\* f_unlink, f_mkdir or f_rename returns OK (the device may have failed any
\* disk_write), FAT #2 equals FAT #1 sector by sector.
C8_MirrorAfterSync ==
    (ret.op \in {"f_sync", "f_close", "f_unlink", "f_mkdir", "f_rename"}
     /\ ret.res = "FR_OK")
    => FatsEqual

\* C9: once a disk error is latched in a handle by f_read or f_write, every
\* f_read, f_write, f_lseek, f_truncate and f_sync on it returns that error
\* with no device call and without changing the handle.
C9_StickyError ==
    [][(/\ ret'.op \in {"f_read", "f_write", "f_lseek", "f_truncate", "f_sync"}
        /\ IsOpen(ret'.h)
        /\ fil[ret'.h].err = "FR_DISK_ERR")
       => /\ ret'.res = "FR_DISK_ERR"
          /\ ret'.io = 0
          /\ fil'[ret'.h] = fil[ret'.h]]_vars

(*------------------------- the byte count of f_read ----------------------*)
\* C11: whenever f_read returns a result other than OK (also when the error
\* comes up part-way through a request of several sectors), the count of
\* bytes read that it reports is 0.
C11_ZeroOnError ==
    (ret.op = "f_read" /\ ret.res # "FR_OK") => ret.n = 0

(*------------------------- directory objects -----------------------------*)
\* a DIR the caller has zero-initialised and never opened
BlankDir == NewDir @@ [fs |-> 0, id |-> 0, lockid |-> 0]

f_opendir(w, F, dp, path) ==
    CHOOSE r \in {
      IF fo.res # "FR_OK"
      THEN [w |-> fo.w, F |-> F, dp |-> [fo.dp EXCEPT !.fs = 0],
            res |-> IF fo.res = "FR_NO_FILE" THEN "FR_NO_PATH" ELSE fo.res]
      ELSE IF "NS_NONAME" \notin fo.dp.ns /\ ~HasBit(fo.dp.attr, AM_DIR)
      THEN [w |-> fo.w, F |-> F, dp |-> [fo.dp EXCEPT !.fs = 0], res |-> "FR_NO_DIR"]
      ELSE CHOOSE r2 \in {
             IF s.res # "FR_OK"
             THEN [w |-> s.w, F |-> F, dp |-> [s.dp EXCEPT !.fs = 0],
                   res |-> IF s.res = "FR_NO_FILE" THEN "FR_NO_PATH" ELSE s.res]
             ELSE IF s.dp.sclust = 0
             THEN [w |-> s.w, F |-> F, dp |-> [s.dp EXCEPT !.lockid = 0], res |-> "FR_OK"]
             ELSE CHOOSE r3 \in {
                    IF inc.id = 0
                    THEN [w |-> s.w, F |-> inc.F, res |-> "FR_TOO_MANY_OPEN_FILES",
                          dp |-> [s.dp EXCEPT !.lockid = 0, !.fs = 0]]
                    ELSE [w |-> s.w, F |-> inc.F, res |-> "FR_OK",
                          dp |-> [s.dp EXCEPT !.lockid = inc.id]]
                  : inc \in {inc_share(F, s.dp, 0)}} : TRUE
           : s \in {Do("dir_sdi",
                       <<fo.w,
                         [fo.dp EXCEPT !.id = fo.w.fs.id,
                                       !.sclust = IF "NS_NONAME" \in fo.dp.ns THEN @
                                                  ELSE ld_clust(fo.w, fo.dp.dptr % SS)],
                         0>>)}} : TRUE
    : fo \in {Do("follow_path", <<w, [dp EXCEPT !.fs = TheFs], path>>)}} : TRUE

\* f_readdir with fno given; fno is the name cell of the entry read, 0 at
\* the end of the directory
f_readdir(w, dp) ==
    IF validate(w, dp) # "FR_OK"
    THEN [w |-> w, dp |-> dp, res |-> validate(w, dp), fno |-> 0]
    ELSE CHOOSE r \in {
           IF rd.res \notin {"FR_OK", "FR_NO_FILE"}
           THEN [w |-> rd.w, dp |-> rd.dp, res |-> rd.res, fno |-> 0]
           ELSE CHOOSE r2 \in {
                  [w |-> nx.w, dp |-> nx.dp,
                   res |-> IF nx.res = "FR_NO_FILE" THEN "FR_OK" ELSE nx.res,
                   fno |-> IF rd.dp.sect = 0 THEN 0 ELSE DirCell(rd.w, rd.dp, DIR_Name)]
                : nx \in {Do("dir_next", <<rd.w, rd.dp, FALSE>>)}} : TRUE
         : rd \in {Do("dir_read", <<w, dp, FALSE>>)}} : TRUE

(*------------------------- unmounting and mounting -----------------------*)
TheDir == 3             \* the caller's DIR object

\* f_mount(NULL, "", 0) for nfs = 0, f_mount(&fs, "", opt) for nfs = TheFs;
\* the handles that are open at the call are stale from then on
F_mount(nfs, opt, fail) ==
    \E r \in {f_mount(World(fail), Files, FatFs, Fsid, nfs, opt)} :
      /\ disk' = r.w.disk
      /\ fs' = r.w.fs
      /\ Files' = r.F
      /\ FatFs' = r.FatFs
      /\ Fsid' = r.Fsid
      /\ ret' = [NoRet EXCEPT !.op = "f_mount", !.res = r.res, !.io = r.w.io,
                              !.arg = nfs]
      /\ model' = [model EXCEPT !.ops = @ + 1,
                                !.stale = @ \cup {h \in DOMAIN fil : fil[h].fs # 0}]
      /\ UNCHANGED fil

\* the mount of a registered FATFS object by find_fat_partition and init_fatobj
F_init_fatobj(fail) ==
    /\ FatFs = TheFs
    /\ fs.fs_type = 0
    /\ \E r \in {init_fatobj(World(fail))} :
         /\ disk' = r.w.disk
         /\ fs' = r.w.fs
         /\ ret' = [NoRet EXCEPT !.op = "init_fatobj", !.res = r.res, !.io = r.w.io]
         /\ model' = [model EXCEPT !.ops = @ + 1]
         /\ UNCHANGED <<Files, fil, FatFs, Fsid>>

F_opendir(h, path, fail) ==
    /\ fil[h].fs = 0
    /\ \E r \in {f_opendir(World(fail), Files, fil[h], path)} :
         /\ disk' = r.w.disk
         /\ fs' = r.w.fs
         /\ Files' = r.F
         /\ fil' = [fil EXCEPT ![h] = r.dp]
         /\ ret' = [NoRet EXCEPT !.op = "f_opendir", !.h = h, !.res = r.res,
                                 !.io = r.w.io, !.path = path]
         /\ model' = [model EXCEPT !.ops = @ + 1, !.stale = @ \ {h}]
         /\ UNCHANGED <<FatFs, Fsid>>

F_readdir(h, fail) ==
    /\ fil[h].fs # 0
    /\ \E r \in {f_readdir(World(fail), fil[h])} :
         /\ disk' = r.w.disk
         /\ fs' = r.w.fs
         /\ fil' = [fil EXCEPT ![h] = r.dp]
         /\ ret' = [NoRet EXCEPT !.op = "f_readdir", !.h = h, !.res = r.res,
                                 !.io = r.w.io, !.n = r.fno]
         /\ model' = [model EXCEPT !.ops = @ + 1]
         /\ UNCHANGED <<Files, FatFs, Fsid>>

\* The volume with the files "A" and "B" has been mounted by f_mount or by
\* init_fatobj.  A caller opens "A" and the root directory, the volume is
\* unmounted, registered and mounted again in either way, and the caller
\* goes on using its handles.
MaxOpsMount == 6

InitMount ==
    /\ disk = TwoFilesDisk
    /\ \E id \in {0, 1} : fs = [MountedFs EXCEPT !.id = id] /\ Fsid = id
    /\ FatFs = TheFs
    /\ Files = BlankFiles
    /\ fil = [h \in Handles \cup {TheDir} |-> IF h = TheDir THEN BlankDir ELSE BlankFil]
    /\ ret = NoRet
    /\ model = [NoModel EXCEPT !.data["A"] = DataAt(1, 0, 3)]

OpenMount ==
    /\ model.ops < MaxOpsMount
    /\ fs.fs_type # 0
    /\ F_open(Writer, <<"A">>, UpdateMode, 0, NoFail)

OpendirMount ==
    /\ model.ops < MaxOpsMount
    /\ fs.fs_type # 0
    /\ F_opendir(TheDir, <<>>, NoFail)

UnmountMount ==
    /\ model.ops < MaxOpsMount
    /\ F_mount(0, 0, NoFail)

MountMount ==
    /\ model.ops < MaxOpsMount
    /\ \E opt \in {0, 1} : F_mount(TheFs, opt, NoFail)

InitFatobjMount ==
    /\ model.ops < MaxOpsMount
    /\ F_init_fatobj(NoFail)

ReadMount ==
    /\ model.ops < MaxOpsMount
    /\ F_read(Writer, MaxLen, NoFail)

WriteMount ==
    /\ model.ops < MaxOpsMount
    /\ F_write(Writer, MaxLen, model.ops, NoFail)

SeekMount ==
    /\ model.ops < MaxOpsMount
    /\ F_lseek(Writer, 1, NoFail)

SyncMount ==
    /\ model.ops < MaxOpsMount
    /\ F_sync(Writer, NoFail)

CloseMount ==
    /\ model.ops < MaxOpsMount
    /\ F_close(Writer, NoFail)

ReaddirMount ==
    /\ model.ops < MaxOpsMount
    /\ F_readdir(TheDir, NoFail)

NextMount ==
    \/ OpenMount \/ OpendirMount \/ UnmountMount \/ MountMount \/ InitFatobjMount
    \/ ReadMount \/ WriteMount \/ SeekMount \/ SyncMount \/ CloseMount \/ ReaddirMount

SpecMount == InitMount /\ [][NextMount]_vars

\* C12: once the volume has been unmounted and mounted again, f_read,
\* f_write, f_lseek, f_sync, f_close and f_readdir reject every handle that
\* was issued before the unmount with INVALID_OBJECT, make no device call
\* and leave the registry as it is.
C12_StaleHandles ==
    [][(/\ ret'.op \in {"f_read", "f_write", "f_lseek", "f_sync", "f_close",
                        "f_readdir"}
        /\ ret'.h \in model.stale)
       => /\ ret'.res = "FR_INVALID_OBJECT"
          /\ ret'.io = 0
          /\ Files' = Files]_vars

(*------------------------- creating and overwriting ----------------------*)
\* A volume with file "A" (cluster 2, three bytes) and the read-only file
\* "B" (cluster 3, three bytes).
Callers == 1..(FF_FS_LOCK + 1)

ReadOnlyDisk ==
    [s \in 0..(NSECT - 1) |->
        IF s = FATBASE \/ s = FATBASE + FSIZE
        THEN [i \in 0..(SS - 1) |-> <<248, 255, 255, 255, 255, 255, 0, 0>>[i + 1]]
        ELSE IF s = DIRBASE
        THEN [i \in 0..(SS - 1) |-> <<65, AM_ARC, 2, 3, 66, AM_ARC + AM_RDO, 3, 3>>[i + 1]]
        ELSE IF s = DATABASE + CSIZE
        THEN [i \in 0..(SS - 1) |-> IF i < 3 THEN Pattern(2, i) ELSE 0]
        ELSE TwoFilesDisk[s]]

InitCreate ==
    /\ disk = ReadOnlyDisk
    /\ fs = MountedFs
    /\ FatFs = TheFs
    /\ Fsid = 1
    /\ Files = BlankFiles
    /\ fil = [h \in Callers |-> BlankFil]
    /\ ret = NoRet
    /\ model = [NoModel EXCEPT !.data["A"] = DataAt(1, 0, 3),
                               !.data["B"] = DataAt(2, 0, 3),
                               !.at = [h \in Callers |-> "-"],
                               !.seq = [h \in Callers |-> 0 - 1]]

\* Three callers, one more than the registry has slots, open "A", "B" and
\* the new name "D" for reading and in every mode that includes write
\* access, write and close; the device never fails.
MaxOpsCreate == 3
CreatePaths == {<<"A">>, <<"B">>, <<"D">>}
CreateModes ==
    {{"FA_READ"}}
    \cup {{"FA_WRITE"} \cup m : m \in {{}, {"FA_CREATE_NEW"}, {"FA_CREATE_ALWAYS"},
                                       {"FA_OPEN_ALWAYS"}, {"FA_OPEN_ALWAYS", "FA_SEEKEND"}}}

OpenCreate ==
    /\ model.ops < MaxOpsCreate
    /\ \E h \in Callers : \E path \in CreatePaths : \E mode \in CreateModes :
         F_open(h, path, mode, 0, NoFail)

WriteCreate ==
    /\ model.ops < MaxOpsCreate
    /\ \E h \in Callers : F_write(h, MaxLen, model.ops, NoFail)

CloseCreate ==
    /\ model.ops < MaxOpsCreate
    /\ \E h \in Callers : F_close(h, NoFail)

NextCreate == OpenCreate \/ WriteCreate \/ CloseCreate

SpecCreate == InitCreate /\ [][NextCreate]_vars

(*------------------------- properties of f_open --------------------------*)
\* the directory entry the path names, as the volume d, f holds it
EntryOf(d, f, path) ==
    CHOOSE e \in {
      IF l.res # "FR_OK" THEN <<>> ELSE [k \in 0..(SZDIRE - 1) |-> DirCell(l.w, l.dp, k)]
    : l \in {Lookup(d, f, path)}} : TRUE

\* C13: f_open with CREATE_NEW|WRITE creates a file of length 0 and returns
\* OK when the path names no object (its parent directory exists), and
\* returns EXIST, leaving the entry and the chain of the file as they are,
\* when the path names a file (one that no handle holds open).
C13_CreateNew ==
    [][(/\ ret'.op = "f_open" /\ ret'.mode = {"FA_CREATE_NEW", "FA_WRITE"}
        /\ ~OpenOn(ret'.path[1])) =>
         IF EntryOf(disk, fs, ret'.path) = <<>>
         THEN /\ ret'.res = "FR_OK"
              /\ fil'[ret'.h].objsize = 0
              /\ EntryOf(disk', fs', ret'.path) # <<>>
         ELSE /\ ret'.res = "FR_EXIST"
              /\ EntryOf(disk', fs', ret'.path) = EntryOf(disk, fs, ret'.path)
              /\ \A c \in 2..(N_FATENT - 1) : FatIn(disk', fs', c) = FatIn(disk, fs, c)]_vars

\* the registry has a slot for one more object
FreeSlot == \E i \in Slots : Files[i].fs = 0

\* a file, not read-only, that no handle holds open
PlainFile(path) ==
    /\ EntryOf(disk, fs, path) # <<>>
    /\ ~HasBit(EntryOf(disk, fs, path)[DIR_Attr], AM_RDO)
    /\ ~HasBit(EntryOf(disk, fs, path)[DIR_Attr], AM_DIR)
    /\ ~OpenOn(path[1])

\* what C14 promises of the step
Overwritten ==
    /\ ret'.res = "FR_OK"
    /\ fil'[ret'.h].objsize = 0
    /\ fil'[ret'.h].sclust = 0
    /\ \A c \in 2..(N_FATENT - 1) :
         FatIn(disk', fs', c)
           = IF c \in ChainOf(disk, fs, EntryOf(disk, fs, ret'.path)[DIR_FstClusLO])
             THEN 0 ELSE FatIn(disk, fs, c)
    /\ EntryOf(disk', fs', ret'.path)[DIR_FileSize] = 0
    /\ EntryOf(disk', fs', ret'.path)[DIR_FstClusLO] = 0

\* C14 as stated: f_open with CREATE_ALWAYS|WRITE on an existing file that is
\* not read-only and that no handle holds open returns OK with objsize = 0
\* and sclust = 0; the clusters of the old chain are free, no other FAT entry
\* has changed and the directory entry holds size 0 and start cluster 0.
C14_CreateAlways ==
    [][(/\ ret'.op = "f_open" /\ ret'.mode = {"FA_CREATE_ALWAYS", "FA_WRITE"}
        /\ PlainFile(ret'.path))
       => Overwritten]_vars

\* C14 amended: the same, provided the registry has a free slot.
C14_CreateAlwaysFreeSlot ==
    [][(/\ ret'.op = "f_open" /\ ret'.mode = {"FA_CREATE_ALWAYS", "FA_WRITE"}
        /\ PlainFile(ret'.path) /\ FreeSlot)
       => Overwritten]_vars

\* "A", three bytes in cluster 2, has been overwritten by the first call
C14_Witness ==
    /\ ret.op = "f_open" /\ ret.mode = {"FA_CREATE_ALWAYS", "FA_WRITE"}
    /\ ret.res = "FR_OK" /\ ret.path = <<"A">> /\ model.ops = 1
    /\ FatIn(disk, fs, 2) = 0

\* C15: f_open with WRITE, alone or with CREATE_ALWAYS, CREATE_NEW,
\* OPEN_ALWAYS or OPEN_APPEND, on an existing read-only file (one that no
\* handle holds open, the registry having a free slot) returns DENIED and
\* leaves the directory entry and the FAT as they were.
C15_ReadOnlyDenied ==
    [][(/\ ret'.op = "f_open" /\ "FA_WRITE" \in ret'.mode
        /\ EntryOf(disk, fs, ret'.path) # <<>>
        /\ HasBit(EntryOf(disk, fs, ret'.path)[DIR_Attr], AM_RDO)
        /\ ~HasBit(EntryOf(disk, fs, ret'.path)[DIR_Attr], AM_DIR)
        /\ ~OpenOn(ret'.path[1]) /\ FreeSlot)
       => /\ ret'.res = "FR_DENIED"
          /\ EntryOf(disk', fs', ret'.path) = EntryOf(disk, fs, ret'.path)
          /\ \A c \in 2..(N_FATENT - 1) : FatIn(disk', fs', c) = FatIn(disk, fs, c)]_vars

(*------------------------- removing and making directories ---------------*)
\* On the volume with "A" and the read-only "B" the directory "D" and the
\* directory "A" inside it are made, and objects are removed.
MaxOpsRemove == 5
MkdirPaths == {<<"D">>, <<"D", "A">>}
RemovePaths == {<<"A">>, <<"B">>, <<"D">>, <<"D", "A">>}

MkdirRemove ==
    /\ model.ops < MaxOpsRemove
    /\ \E path \in MkdirPaths : F_mkdir(path, NoFail)

UnlinkRemove ==
    /\ model.ops < MaxOpsRemove
    /\ \E path \in RemovePaths : F_unlink(path, NoFail)

NextRemove == MkdirRemove \/ UnlinkRemove

SpecRemove == InitCreate /\ [][NextRemove]_vars

\* the directory table in cluster dcl holds an entry other than the dot
\* entries
HasEntries(d, f, dcl) ==
    \E s \in 0..(CSIZE - 1) : \E k \in 0..((SS \div SZDIRE) - 1) :
      \E c \in {Sector(d, f, clst2sect(dcl) + s)[k * SZDIRE + DIR_Name]} :
        c # 0 /\ FirstByte(c) # DDEM /\ c # DOT /\ c # DOTDOT

\* C16: f_unlink of an object that has the read-only attribute, or of a
\* directory that holds an entry other than the dot entries, returns DENIED
\* and leaves every sector of the volume as it was.
C16_UnlinkDenied ==
    [][(/\ ret'.op = "f_unlink"
        /\ EntryOf(disk, fs, ret'.path) # <<>>
        /\ \/ HasBit(EntryOf(disk, fs, ret'.path)[DIR_Attr], AM_RDO)
           \/ /\ HasBit(EntryOf(disk, fs, ret'.path)[DIR_Attr], AM_DIR)
              /\ HasEntries(disk, fs, EntryOf(disk, fs, ret'.path)[DIR_FstClusLO]))
       => /\ ret'.res = "FR_DENIED"
          /\ \A s \in 0..(NSECT - 1) : Sector(disk', fs', s) = Sector(disk, fs, s)]_vars

\* C18: f_mkdir of an unused path whose parent directory exists, while a
\* cluster is free, returns OK; the f_unlink of the directory that follows
\* returns OK and leaves the cluster of the directory free; the f_mkdir of the
\* same path that follows the removal returns OK.
C18_MkdirUnlinkMkdir ==
    [][/\ (/\ ret'.op = "f_mkdir"
           /\ Lookup(disk, fs, ret'.path).res = "FR_NO_FILE"
           /\ \E c \in 2..(N_FATENT - 1) : FatIn(disk, fs, c) = 0)
          => ret'.res = "FR_OK"
       /\ (/\ ret.op = "f_mkdir" /\ ret.res = "FR_OK"
           /\ ret'.op = "f_unlink" /\ ret'.path = ret.path)
          => /\ ret'.res = "FR_OK"
             /\ FatIn(disk', fs', EntryOf(disk, fs, ret.path)[DIR_FstClusLO]) = 0
       /\ (/\ ret.op = "f_unlink" /\ ret.res = "FR_OK" /\ ret.path \in MkdirPaths
           /\ ret'.op = "f_mkdir" /\ ret'.path = ret.path)
          => ret'.res = "FR_OK"]_vars

\* "D" was made in cluster 4, removed and made again: the allocation has
\* moved on to cluster 5 and cluster 4 is free
C18_Witness ==
    /\ ret.op = "f_mkdir" /\ ret.res = "FR_OK" /\ ret.path = <<"D">>
    /\ model.ops = 3
    /\ EntryOf(disk, fs, <<"D">>)[DIR_FstClusLO] = 5
    /\ FatIn(disk, fs, 4) = 0

(*------------------------- renaming --------------------------------------*)
\* On the volume with "A" and the read-only "B" objects of the root
\* directory are renamed, among them to the long name "L", the directory "D"
\* is made and objects are removed, which leaves deleted entries behind.
MaxOpsRename == 4
RenamePaths == {<<"A">>, <<"B">>, <<"D">>, <<"L">>}

RenameRename ==
    /\ model.ops < MaxOpsRename
    /\ \E path_old \in RenamePaths : \E path_new \in RenamePaths \ {path_old} :
         F_rename(path_old, path_new, NoFail)

MkdirRename ==
    /\ model.ops < MaxOpsRename
    /\ F_mkdir(<<"D">>, NoFail)

UnlinkRename ==
    /\ model.ops < MaxOpsRename
    /\ \E path \in RenamePaths : F_unlink(path, NoFail)

NextRename == RenameRename \/ MkdirRename \/ UnlinkRename

SpecRename == InitCreate /\ [][NextRename]_vars

\* f_rename(a, b) returned OK and f_rename(b, a) returns OK in this step
RoundTrip ==
    /\ ret.op = "f_rename" /\ ret.res = "FR_OK"
    /\ ret'.op = "f_rename" /\ ret'.res = "FR_OK"
    /\ ret'.path = ret.data /\ ret'.data = ret.path

RootCells == 0..(N_ROOTDIR * SZDIRE - 1)
RootSlots == 0..(N_ROOTDIR - 1)

\* the directory entry in slot i of the root directory is free
FreeSlotAt(d, f, i) ==
    \/ RootCell(d, f, i * SZDIRE + DIR_Name) = 0
    \/ FirstByte(RootCell(d, f, i * SZDIRE + DIR_Name)) = DDEM

\* the slots of the root directory that hold the entries of the object found
SlotsOf(dp) == {i \in RootSlots : FirstEntry(dp) <= i * SZDIRE /\ i * SZDIRE <= dp.dptr}

\* C17 as stated: f_rename(a, b) followed by f_rename(b, a), both returning
\* OK, leaves every cell of the root directory equal to its value before
\* the first rename (the entries of the model have no time fields).
C17_RenameRoundTrip ==
    [][RoundTrip =>
         \A k \in RootCells :
           RootCell(disk', fs', k) = RootCell(ret.before.disk, ret.before.fs, k)]_vars

\* C17 amended: after the two renames a is found again with the start
\* cluster, the size and the attributes (but for the archive bit) it had,
\* b is not found, every entry of another object is unchanged, and a slot
\* that was free, or that held an entry of a, is free or holds an entry of a.
C17_RenameRestoresEntry ==
    [][RoundTrip =>
         \E d0 \in {ret.before.disk} : \E f0 \in {ret.before.fs} :
         \E old \in {Lookup(d0, f0, ret.path)} :
         \E new \in {Lookup(disk', fs', ret.path)} :
           /\ new.res = "FR_OK"
           /\ Lookup(disk', fs', ret.data).res = "FR_NO_FILE"
           /\ \A k \in {DIR_Name, DIR_FstClusLO, DIR_FileSize} :
                EntryOf(disk', fs', ret.path)[k] = EntryOf(d0, f0, ret.path)[k]
           /\ ClrBit(EntryOf(disk', fs', ret.path)[DIR_Attr], AM_ARC)
                = ClrBit(EntryOf(d0, f0, ret.path)[DIR_Attr], AM_ARC)
           /\ \A i \in RootSlots :
                IF FreeSlotAt(d0, f0, i) \/ i \in SlotsOf(old.dp)
                THEN FreeSlotAt(disk', fs', i) \/ i \in SlotsOf(new.dp)
                ELSE \A k \in 0..(SZDIRE - 1) :
                       RootCell(disk', fs', i * SZDIRE + k)
                         = RootCell(d0, f0, i * SZDIRE + k)]_vars

\* "A" went to the long name "L" and back: the two slots "L" had taken
\* hold deleted entries
C17_Witness ==
    /\ ret.op = "f_rename" /\ ret.res = "FR_OK"
    /\ ret.path = <<"L">> /\ ret.data = <<"A">> /\ model.ops = 2
    /\ Lookup(disk, fs, <<"A">>).res = "FR_OK"
    /\ FirstByte(RootCell(disk, fs, 3 * SZDIRE + DIR_Name)) = DDEM

(*------------------------- re-entrancy -----------------------------------*)
\* The configuration with FF_FS_REENTRANT.  fsp is a pointer to the FATFS
\* object (0 is NULL), grant tells whether ff_req_grant gives the mutex, and
\* liteos_m whether the build defines __LITEOS_M__.

\* lock_fs: the mutex is taken when the object exists and the grant is given
lock_fs(fsp, grant) == fsp # 0 /\ grant

\* unlock_fs: the number of calls of ff_rel_grant it makes
unlock_fs(fsp, res) ==
    IF fsp # 0 /\ res \notin {"FR_NOT_ENABLED", "FR_INVALID_DRIVE", "FR_TIMEOUT"}
    THEN 1 ELSE 0

\* LEAVE_FF: the number of calls of ff_rel_grant before the return
LEAVE_FF(liteos_m, fsp, res) == IF liteos_m THEN unlock_fs(fsp, res) ELSE 0

\* the entry of mount_volume: the object is looked up and locked, then the
\* volume is mounted if it is not yet
mount_volume_reentrant(w, F, reg, sid, grant) ==
    IF reg = 0
    THEN [w |-> w, F |-> F, Fsid |-> sid, res |-> "FR_NOT_ENABLED", fs |-> 0, req |-> 0]
    ELSE IF ~lock_fs(reg, grant)
    THEN [w |-> w, F |-> F, Fsid |-> sid, res |-> "FR_TIMEOUT", fs |-> 0, req |-> 0]
    ELSE mount_volume(w, F, reg, sid) @@ [fs |-> reg, req |-> 1]

\* validate: the lock is taken only in the build with __LITEOS_M__
validate_reentrant(w, fp, liteos_m, grant) ==
    IF validate(w, fp) # "FR_OK" THEN [res |-> validate(w, fp), fs |-> 0, req |-> 0]
    ELSE IF ~liteos_m THEN [res |-> "FR_OK", fs |-> fp.fs, req |-> 0]
    ELSE IF lock_fs(fp.fs, grant) THEN [res |-> "FR_OK", fs |-> fp.fs, req |-> 1]
    ELSE [res |-> "FR_TIMEOUT", fs |-> 0, req |-> 0]

f_open_reentrant(w, F, fp, path, mode, reg, sid, liteos_m, grant) ==
    CHOOSE r \in {
      IF m.res # "FR_OK"
      THEN [w |-> m.w, F |-> m.F, fp |-> [fp EXCEPT !.fs = 0], res |-> m.res,
            req |-> m.req, rel |-> LEAVE_FF(liteos_m, m.fs, m.res)]
      ELSE CHOOSE r2 \in {
             o @@ [req |-> m.req, rel |-> LEAVE_FF(liteos_m, m.fs, o.res)]
           : o \in {f_open(m.w, m.F, fp, path, mode, 0)}} : TRUE
    : m \in {mount_volume_reentrant(w, F, reg, sid, grant)}} : TRUE

f_read_reentrant(w, fp, btr, liteos_m, grant) ==
    CHOOSE r \in {
      IF v.res # "FR_OK"
      THEN [w |-> w, fp |-> fp, res |-> v.res, out |-> <<>>,
            req |-> v.req, rel |-> LEAVE_FF(liteos_m, v.fs, v.res)]
      ELSE CHOOSE r2 \in {
             o @@ [req |-> v.req, rel |-> LEAVE_FF(liteos_m, v.fs, o.res)]
           : o \in {f_read(w, fp, btr)}} : TRUE
    : v \in {validate_reentrant(w, fp, liteos_m, grant)}} : TRUE

f_sync_reentrant(w, fp, liteos_m, grant) ==
    CHOOSE r \in {
      IF v.res # "FR_OK"
      THEN [w |-> w, fp |-> fp, res |-> v.res,
            req |-> v.req, rel |-> LEAVE_FF(liteos_m, v.fs, v.res)]
      ELSE CHOOSE r2 \in {
             o @@ [req |-> v.req, rel |-> LEAVE_FF(liteos_m, v.fs, o.res)]
           : o \in {f_sync(w, fp)}} : TRUE
    : v \in {validate_reentrant(w, fp, liteos_m, grant)}} : TRUE

\* f_close: f_sync, then validate once more, then unlock_fs
f_close_reentrant(w, F, fp, liteos_m, grant, grant2) ==
    CHOOSE r \in {
      IF s.res \notin {"FR_OK", "FR_DISK_ERR"}
      THEN [w |-> s.w, F |-> F, fp |-> s.fp, res |-> s.res, req |-> s.req, rel |-> s.rel]
      ELSE CHOOSE r2 \in {
             IF v.res # "FR_OK"
             THEN [w |-> s.w, F |-> F, fp |-> s.fp, res |-> v.res,
                   req |-> s.req + v.req, rel |-> s.rel]
             ELSE CHOOSE r3 \in {
                    [w |-> s.w, F |-> d.F, res |-> d.res,
                     fp |-> IF d.res = "FR_OK" THEN [s.fp EXCEPT !.fs = 0] ELSE s.fp,
                     req |-> s.req + v.req, rel |-> s.rel + unlock_fs(v.fs, "FR_OK")]
                  : d \in {dec_share(F, s.fp.lockid)}} : TRUE
           : v \in {validate_reentrant(s.w, s.fp, liteos_m, grant2)}} : TRUE
    : s \in {f_sync_reentrant(w, fp, liteos_m, grant)}} : TRUE

\* the characters set_volumn_label rejects in a label
badchr == {34, 42, 43, 44, 46, 58, 59, 60, 61, 62, 63, 91, 93, 124, 127}

\* the loop of set_volumn_label over the characters of the label (ASCII
\* characters, which the code page leaves as they are): the name dirvn, or
\* <<0>> for a label that is rejected
RECURSIVE label_name(_, _)
label_name(label, dirvn) ==
    IF label = <<>> \/ Head(label) < 32 THEN dirvn
    ELSE IF ff_wtoupper(Head(label)) \in badchr \/ Len(dirvn) >= 11 THEN <<0>>
    ELSE label_name(Tail(label), Append(dirvn, ff_wtoupper(Head(label))))

\* the name without its trailing spaces
RECURSIVE snip(_)
snip(dirvn) ==
    IF dirvn # <<>> /\ dirvn[Len(dirvn)] = 32 THEN snip(SubSeq(dirvn, 1, Len(dirvn) - 1))
    ELSE dirvn

\* the name cell of a label: the first byte in the low eight bits
RECURSIVE LabelCell(_)
LabelCell(dirvn) == IF dirvn = <<>> THEN 0 ELSE Head(dirvn) + 256 * LabelCell(Tail(dirvn))

\* the directory part of set_volumn_label for the name dirvn
label_store(w, dirvn) ==
    CHOOSE r \in {
      IF s.res # "FR_OK" THEN [w |-> s.w, res |-> s.res]
      ELSE CHOOSE r2 \in {
             IF rd.res = "FR_OK"
             THEN Do("sync_fs", <<IF dirvn # <<>>
                                  THEN SetDirCell(rd.w, rd.dp, DIR_Name, LabelCell(dirvn))
                                  ELSE MarkDeleted(rd.w, rd.dp)>>)
             ELSE IF rd.res # "FR_NO_FILE" THEN [w |-> rd.w, res |-> rd.res]
             ELSE IF dirvn = <<>> THEN [w |-> rd.w, res |-> "FR_OK"]
             ELSE CHOOSE r3 \in {
                    IF a.res # "FR_OK" THEN [w |-> a.w, res |-> a.res]
                    ELSE Do("sync_fs",
                            <<SetDirCell(
                                SetDirCell(
                                  SetDirCell(
                                    SetDirCell(a.w, a.dp, DIR_FileSize, 0),
                                    a.dp, DIR_FstClusLO, 0),
                                  a.dp, DIR_Attr, AM_VOL),
                                a.dp, DIR_Name, LabelCell(dirvn))>>)
                  : a \in {Do("dir_alloc", <<rd.w, rd.dp, 1>>)}} : TRUE
           : rd \in {Do("dir_read", <<s.w, s.dp, TRUE>>)}} : TRUE
    : s \in {Do("dir_sdi", <<w, NewDir, 0>>)}} : TRUE

\* set_volumn_label: left tells that it returned through LEAVE_FF
set_volumn_label(w, label) ==
    CHOOSE r \in {
      IF dirvn = <<0>> \/ (dirvn # <<>> /\ dirvn[1] = DDEM)
      THEN [w |-> w, res |-> "FR_INVALID_NAME", left |-> TRUE]
      ELSE label_store(w, snip(dirvn)) @@ [left |-> FALSE]
    : dirvn \in {label_name(label, <<>>)}} : TRUE

f_setlabel(w, F, reg, sid, label, liteos_m, grant) ==
    CHOOSE r \in {
      IF m.res # "FR_OK"
      THEN [w |-> m.w, F |-> m.F, Fsid |-> m.Fsid, res |-> m.res,
            req |-> m.req, rel |-> LEAVE_FF(liteos_m, m.fs, m.res)]
      ELSE CHOOSE r2 \in {
             [w |-> s.w, F |-> m.F, Fsid |-> m.Fsid, res |-> s.res, req |-> m.req,
              rel |-> (IF s.left THEN LEAVE_FF(liteos_m, m.fs, s.res) ELSE 0)
                      + LEAVE_FF(liteos_m, m.fs, s.res)]
           : s \in {set_volumn_label(m.w, label)}} : TRUE
    : m \in {mount_volume_reentrant(w, F, reg, sid, grant)}} : TRUE

F_open_reentrant(h, path, mode, grant) ==
    /\ fil[h].fs = 0
    /\ \E r \in {f_open_reentrant(World(NoFail), Files, fil[h], path, mode, FatFs, Fsid,
                                  model.liteos_m, grant)} :
         /\ disk' = r.w.disk
         /\ fs' = r.w.fs
         /\ Files' = r.F
         /\ fil' = [fil EXCEPT ![h] = r.fp]
         /\ ret' = [NoRet EXCEPT !.op = "f_open", !.h = h, !.res = r.res, !.io = r.w.io,
                                 !.path = path, !.mode = mode,
                                 !.req = r.req, !.rel = r.rel]
         /\ model' = [model EXCEPT !.ops = @ + 1,
                                   !.at[h] = IF r.res = "FR_OK" THEN path[1] ELSE @]
         /\ UNCHANGED <<FatFs, Fsid>>

F_read_reentrant(h, len, grant) ==
    /\ fil[h].fs # 0
    /\ \E r \in {f_read_reentrant(World(NoFail), fil[h], len, model.liteos_m, grant)} :
         /\ disk' = r.w.disk
         /\ fs' = r.w.fs
         /\ fil' = [fil EXCEPT ![h] = r.fp]
         /\ ret' = [NoRet EXCEPT !.op = "f_read", !.h = h, !.res = r.res, !.io = r.w.io,
                                 !.n = Len(r.out), !.data = r.out,
                                 !.req = r.req, !.rel = r.rel]
         /\ model' = [model EXCEPT !.ops = @ + 1]
         /\ UNCHANGED <<Files, FatFs, Fsid>>

F_close_reentrant(h, grant, grant2) ==
    /\ fil[h].fs # 0
    /\ \E r \in {f_close_reentrant(World(NoFail), Files, fil[h], model.liteos_m,
                                   grant, grant2)} :
         /\ disk' = r.w.disk
         /\ fs' = r.w.fs
         /\ Files' = r.F
         /\ fil' = [fil EXCEPT ![h] = r.fp]
         /\ ret' = [NoRet EXCEPT !.op = "f_close", !.h = h, !.res = r.res, !.io = r.w.io,
                                 !.req = r.req, !.rel = r.rel]
         /\ model' = [model EXCEPT !.ops = @ + 1,
                                   !.at[h] = IF r.fp.fs = 0 THEN "-" ELSE @]
         /\ UNCHANGED <<FatFs, Fsid>>

F_setlabel(label, grant) ==
    \E r \in {f_setlabel(World(NoFail), Files, FatFs, Fsid, label, model.liteos_m, grant)} :
      /\ disk' = r.w.disk
      /\ fs' = r.w.fs
      /\ Files' = r.F
      /\ Fsid' = r.Fsid
      /\ ret' = [NoRet EXCEPT !.op = "f_setlabel", !.res = r.res, !.io = r.w.io,
                              !.data = label, !.req = r.req, !.rel = r.rel]
      /\ model' = [model EXCEPT !.ops = @ + 1]
      /\ UNCHANGED <<fil, FatFs>>

\* On the volume with "A" and "B", registered or not, in either build, files
\* are opened, read and closed and the label is set, removed and set to
\* names the code rejects; ff_req_grant gives the mutex or times out.
MaxOpsGrant == 4
Labels == {<<>>, <<97>>, <<65, 32>>, <<42>>, [i \in 1..12 |-> 65]}

InitGrant ==
    /\ disk = ReadOnlyDisk
    /\ fs = MountedFs
    /\ FatFs \in {0, TheFs}
    /\ Fsid = 1
    /\ Files = BlankFiles
    /\ fil = [h \in Handles |-> BlankFil]
    /\ ret = NoRet
    /\ model \in {NoModel @@ [liteos_m |-> b] : b \in BOOLEAN}

OpenGrant ==
    /\ model.ops < MaxOpsGrant
    /\ \E h \in Handles : \E path \in {<<"A">>, <<"D">>} :
       \E mode \in {{"FA_READ"}, {"FA_WRITE", "FA_OPEN_ALWAYS"}} : \E grant \in BOOLEAN :
         F_open_reentrant(h, path, mode, grant)

ReadGrant ==
    /\ model.ops < MaxOpsGrant
    /\ \E h \in Handles : \E grant \in BOOLEAN : F_read_reentrant(h, MaxLen, grant)

CloseGrant ==
    /\ model.ops < MaxOpsGrant
    /\ \E h \in Handles : \E grant \in BOOLEAN : \E grant2 \in BOOLEAN :
         F_close_reentrant(h, grant, grant2)

SetlabelGrant ==
    /\ model.ops < MaxOpsGrant
    /\ \E label \in Labels : \E grant \in BOOLEAN : F_setlabel(label, grant)

NextGrant == OpenGrant \/ ReadGrant \/ CloseGrant \/ SetlabelGrant

SpecGrant == InitGrant /\ [][NextGrant]_vars

\* C20: in the re-entrant configuration every operation takes the mutex of
\* the volume before it accesses the device and releases it as often as it
\* took it, once for every acquisition and never without one.
C20_GrantReleasedOnce ==
    /\ ret.rel = ret.req
    /\ ret.req = 0 => ret.io = 0

\* ---------------------------------------------------------------------------
\* f_mkfs: formatting a drive, and mounting what it made.  The arithmetic of
\* the layout depends on the real sizes, so that this part works with sectors
\* of FF_MAX_SS bytes and directory entries of 32 bytes.  A sector is a record
\* of the fields the code reads; the field BS_JmpBoot stands for byte 0 of the
\* sector whatever the sector holds.  The drive keeps the list of the
\* transfers written to it: a transfer of n sectors holds the first sector of
\* the working buffer and n - 1 sectors of zeros, as f_mkfs leaves the rest of
\* its buffer cleared (5892, 5906, 5923).
\* ---------------------------------------------------------------------------
FF_MAX_SS == 512                \* ss = FF_MAX_SS
SZDIRE32 == 32                  \* SZDIRE, the size of a directory entry in bytes
N_SEC_TRACK == 63
MBR_GPT == 238                  \* 0xEE, the system ID of a protective MBR

cst == <<1, 4, 16, 64, 256, 512, 0>>
cst32 == <<1, 2, 4, 8, 16, 32, 0>>

BlankSect ==
    [BS_JmpBoot |-> 0, BPB_BytsPerSec |-> 0, BPB_SecPerClus |-> 0,
     BPB_RsvdSecCnt |-> 0, BPB_NumFATs |-> 0, BPB_RootEntCnt |-> 0,
     BPB_TotSec16 |-> 0, BPB_FATSz16 |-> 0, BPB_TotSec32 |-> 0, BPB_FATSz32 |-> 0,
     BPB_FSVer32 |-> 0, BPB_RootClus32 |-> 0, BPB_FSInfo32 |-> 0,
     BS_FilSysType32 |-> "", BS_55AA |-> 0,
     FSI_LeadSig |-> "", FSI_StrucSig |-> "", FSI_Free_Count |-> 0, FSI_Nxt_Free |-> 0,
     PTE_System |-> 0, PTE_StLba |-> 0, PTE_SizLba |-> 0]

\* disk_read of one sector of the drive: the last transfer that covers it
drive_read(d, sect) ==
    LET hits == {i \in 1..Len(d.ws) : d.ws[i].sect <= sect /\ sect < d.ws[i].sect + d.ws[i].n}
    IN IF sect >= d.sz_drv THEN [res |-> "RES_PARERR", buf |-> BlankSect]
       ELSE IF hits = {} THEN [res |-> "RES_OK", buf |-> d.old]
       ELSE LET t == d.ws[CHOOSE i \in hits : \A j \in hits : j <= i]
            IN [res |-> "RES_OK", buf |-> IF sect = t.sect THEN t.head ELSE BlankSect]

\* disk_write of n sectors at sect, the first of them head
drive_write(d, head, sect, n) ==
    IF sect + n > d.sz_drv THEN [res |-> "RES_PARERR", d |-> d]
    ELSE [res |-> "RES_OK",
          d |-> [d EXCEPT !.ws = Append(@, [sect |-> sect, n |-> n, head |-> head])]]

\* the cluster size looked up in a table: for (i = 0, pau = 1; tbl[i] &&
\* tbl[i] <= n; i++, pau <<= 1)
RECURSIVE au_from_table(_, _, _, _)
au_from_table(tbl, n, i, pau) ==
    IF tbl[i] # 0 /\ tbl[i] <= n THEN au_from_table(tbl, n, i + 1, pau * 2) ELSE pau

\* (DWORD)d / pau for a difference d of sector counts: a negative d wraps to
\* 2^32 + d.  pau is a power of two; a quotient beyond the largest integer of
\* the model is held at that integer (it is only compared with MAX_FAT16).
dword_quot(d, pau) ==
    IF d >= 0 THEN d \div pau
    ELSE IF pau >= 4 THEN (1073741824 \div (pau \div 4)) + (d \div pau)
    ELSE DISK_ERROR

\* the loop 5761-5836 that settles the FAT sub-type and the cluster size;
\* p holds sz_vol, b_vol, sz_blk, n_fat, n_root and fsopt
RECURSIVE mkfs_clusters(_, _, _)
mkfs_clusters(p, sz_au, fsty0) ==
    LET ss == FF_MAX_SS
        fat32 == fsty0 = FS_FAT32
        pau == IF sz_au # 0 THEN sz_au
               ELSE IF fat32 THEN au_from_table(cst32, p.sz_vol \div 131072, 1, 1)
               ELSE au_from_table(cst, p.sz_vol \div 4096, 1, 1)
        n_clst0 == p.sz_vol \div pau
        fsty == IF fat32 \/ n_clst0 > MAX_FAT12 THEN fsty0 ELSE FS_FAT12
        sz_fat0 == IF fat32 THEN (n_clst0 * 4 + 8 + ss - 1) \div ss
                   ELSE IF n_clst0 > MAX_FAT12 THEN (n_clst0 * 2 + 4 + ss - 1) \div ss
                   ELSE ((n_clst0 * 3 + 1) \div 2 + 3 + ss - 1) \div ss
        sz_rsv0 == IF fat32 THEN 32 ELSE 1
        sz_dir == IF fat32 THEN 0 ELSE (p.n_root * SZDIRE32) \div ss
        b_fat0 == p.b_vol + sz_rsv0
        b_data == b_fat0 + sz_fat0 * p.n_fat + sz_dir
        n0 == ((b_data + p.sz_blk - 1) \div p.sz_blk) * p.sz_blk - b_data
        frac == ~fat32 /\ n0 % p.n_fat # 0
        n == IF frac THEN n0 - 1 ELSE n0
        sz_rsv == IF fat32 THEN sz_rsv0 + n0 ELSE IF frac THEN sz_rsv0 + 1 ELSE sz_rsv0
        b_fat == IF fat32 THEN b_fat0 + n0 ELSE IF frac THEN b_fat0 + 1 ELSE b_fat0
        sz_fat == IF fat32 THEN sz_fat0 ELSE sz_fat0 + n \div p.n_fat
        n_clst == dword_quot(p.sz_vol - sz_rsv - sz_fat * p.n_fat - sz_dir, pau)
        out(fr) == [fr |-> fr, fsty |-> fsty, pau |-> pau, n_clst |-> n_clst,
                    sz_rsv |-> sz_rsv, sz_fat |-> sz_fat, sz_dir |-> sz_dir,
                    b_fat |-> b_fat]
    IN
    IF fat32 /\ (n_clst0 <= MAX_FAT16 \/ n_clst0 > MAX_FAT32) THEN out("FR_MKFS_ABORTED")
    ELSE IF p.sz_vol < b_data + pau * 16 - p.b_vol THEN out("FR_MKFS_ABORTED")
    ELSE IF fsty = FS_FAT32 /\ n_clst <= MAX_FAT16
    THEN IF sz_au = 0 /\ pau \div 2 # 0 THEN mkfs_clusters(p, pau \div 2, fsty)
         ELSE out("FR_MKFS_ABORTED")
    ELSE IF fsty = FS_FAT16 /\ n_clst > MAX_FAT16
    THEN IF sz_au = 0 /\ pau * 2 <= 64 THEN mkfs_clusters(p, pau * 2, fsty)
         ELSE IF "FM_FAT32" \in p.fsopt THEN mkfs_clusters(p, sz_au, FS_FAT32)
         ELSE IF sz_au = 0 /\ pau * 2 <= 128 THEN mkfs_clusters(p, pau * 2, fsty)
         ELSE out("FR_MKFS_ABORTED")
    ELSE IF fsty = FS_FAT16 /\ n_clst <= MAX_FAT12
    THEN IF sz_au = 0 /\ pau * 2 <= 128 THEN mkfs_clusters(p, pau * 2, fsty)
         ELSE out("FR_MKFS_ABORTED")
    ELSE IF fsty = FS_FAT12 /\ n_clst > MAX_FAT12 THEN out("FR_MKFS_ABORTED")
    ELSE out("FR_OK")

\* the do-loops 5903-5908 and 5913-5917: nsect sectors from sect on, written
\* in transfers of at most sz_buf sectors, the first of them beginning with
\* head and the buffer cleared after it
RECURSIVE fill_sectors(_, _, _, _, _)
fill_sectors(d, head, sect, nsect, sz_buf) ==
    LET n == IF nsect > sz_buf THEN sz_buf ELSE nsect
        t == drive_write(d, head, sect, n)
    IN IF t.res # "RES_OK" THEN [fr |-> "FR_DISK_ERR", d |-> t.d, sect |-> sect]
       ELSE IF nsect - n = 0 THEN [fr |-> "FR_OK", d |-> t.d, sect |-> sect + n]
       ELSE fill_sectors(t.d, BlankSect, sect + n, nsect - n, sz_buf)

\* the loop 5894-5909 over the copies of the FAT; the first sector of each
\* copy begins with the media byte 0xF8 of entry 0
RECURSIVE fat_init(_, _, _, _, _, _)
fat_init(d, sect, i, n_fat, sz_fat, sz_buf) ==
    IF i >= n_fat THEN [fr |-> "FR_OK", d |-> d, sect |-> sect]
    ELSE LET f == fill_sectors(d, [BlankSect EXCEPT !.BS_JmpBoot = 248], sect, sz_fat, sz_buf)
         IN IF f.fr # "FR_OK" THEN f
            ELSE fat_init(f.d, f.sect, i + 1, n_fat, sz_fat, sz_buf)

\* create_partition for the list {sz_vol, 0} of f_mkfs: one entry is made, as
\* the second size is 0; the CHS fields, which the mount does not read, are
\* left out
create_partition(d, plst, sys) ==
    LET sz_drv32 == d.sz_drv
        s_lba32 == N_SEC_TRACK
        pct == IF plst[1] > 100 THEN plst[1]
               ELSE IF plst[1] = 100 THEN sz_drv32 ELSE (sz_drv32 \div 100) * plst[1]
        n_lba32 == IF s_lba32 + pct > sz_drv32 THEN sz_drv32 - s_lba32 ELSE pct
        mbr == IF s_lba32 < sz_drv32 /\ n_lba32 # 0
               THEN [BlankSect EXCEPT !.PTE_StLba = s_lba32, !.PTE_SizLba = n_lba32,
                                     !.PTE_System = sys, !.BS_55AA = Sign55AA]
               ELSE [BlankSect EXCEPT !.BS_55AA = Sign55AA]
        t == drive_write(d, mbr, 0, 1)
    IN [fr |-> IF t.res = "RES_OK" THEN "FR_OK" ELSE "FR_DISK_ERR", d |-> t.d]

\* the VBR of 5843-5875.  In the VBR of a FAT12/16 volume the bytes of the
\* FAT32 fields hold the drive number, the boot signature, the serial number
\* and the label; the record has no such fields, the mount does not read them.
mkfs_vbr(p, g) ==
    LET common ==
          [BS_JmpBoot |-> 235, BPB_BytsPerSec |-> FF_MAX_SS,
           BPB_SecPerClus |-> g.pau % 256, BPB_RsvdSecCnt |-> g.sz_rsv % 65536,
           BPB_NumFATs |-> p.n_fat % 256,
           BPB_RootEntCnt |-> IF g.fsty = FS_FAT32 THEN 0 ELSE p.n_root % 65536,
           BPB_TotSec16 |-> IF p.sz_vol < 65536 THEN p.sz_vol ELSE 0,
           BPB_TotSec32 |-> IF p.sz_vol < 65536 THEN 0 ELSE p.sz_vol,
           BS_55AA |-> Sign55AA,
           FSI_LeadSig |-> "", FSI_StrucSig |-> "", FSI_Free_Count |-> 0,
           FSI_Nxt_Free |-> 0, PTE_System |-> 0, PTE_StLba |-> 0, PTE_SizLba |-> 0]
    IN IF g.fsty = FS_FAT32
       THEN common @@ [BPB_FATSz16 |-> 0, BPB_FATSz32 |-> g.sz_fat, BPB_FSVer32 |-> 0,
                       BPB_RootClus32 |-> 2, BPB_FSInfo32 |-> 1,
                       BS_FilSysType32 |-> "FAT32   "]
       ELSE common @@ [BPB_FATSz16 |-> g.sz_fat % 65536, BS_FilSysType32 |-> ""]

\* the FSINFO sector of 5881-5886
mkfs_fsinfo(g) ==
    [BlankSect EXCEPT !.BS_JmpBoot = 82, !.FSI_LeadSig = "RRaA", !.FSI_StrucSig = "rrAa",
                     !.FSI_Free_Count = g.n_clst - 1, !.FSI_Nxt_Free = 2,
                     !.BS_55AA = Sign55AA]

\* 5842-5983: what f_mkfs writes once the geometry g is settled.  The results
\* of the transfers of the backup VBR and of the FSINFO sectors are not looked
\* at by the code.
mkfs_write(d, p, g, sz_buf) ==
    LET fat32 == g.fsty = FS_FAT32
        vbr == mkfs_vbr(p, g)
        fsi == mkfs_fsinfo(g)
        t1 == drive_write(d, vbr, p.b_vol, 1)
        d2 == IF ~fat32 THEN t1.d
              ELSE drive_write(
                     drive_write(
                       drive_write(t1.d, vbr, p.b_vol + 6, 1).d,
                       fsi, p.b_vol + 7, 1).d,
                     fsi, p.b_vol + 1, 1).d
        fa == fat_init(d2, g.b_fat, 0, p.n_fat, g.sz_fat, sz_buf)
        rd == fill_sectors(fa.d, BlankSect, fa.sect, IF fat32 THEN g.pau ELSE g.sz_dir, sz_buf)
        vp == IF fat32 THEN drive_write(rd.d, BlankSect, g.b_fat - 1, 1)
              ELSE [res |-> "RES_OK", d |-> rd.d]
        sys == IF fat32 THEN 12
               ELSE IF p.sz_vol >= 65536 THEN 6
               ELSE IF g.fsty = FS_FAT16 THEN 4 ELSE 1
        cp == IF "FM_SFD" \notin p.fsopt THEN create_partition(vp.d, <<p.sz_vol, 0>>, sys)
              ELSE [fr |-> "FR_OK", d |-> vp.d]
        out(fr, dd) == [fr |-> fr, d |-> dd, fsty |-> g.fsty, pau |-> g.pau,
                        n_clst |-> g.n_clst]
    IN IF t1.res # "RES_OK" THEN out("FR_DISK_ERR", t1.d)
       ELSE IF fa.fr # "FR_OK" THEN out(fa.fr, fa.d)
       ELSE IF rd.fr # "FR_OK" THEN out(rd.fr, rd.d)
       ELSE IF vp.res # "RES_OK" THEN out("FR_DISK_ERR", vp.d)
       ELSE out(cp.fr, cp.d)

\* f_mkfs(path, opt, work, len) for the logical drive that is bound to no
\* partition (ipart = 0); the device answers every disk_ioctl
f_mkfs(d, opt, len) ==
    LET ss == FF_MAX_SS
        blk == IF opt.align = 0 THEN d.sz_blk ELSE opt.align
        sz_blk == IF blk = 0 \/ blk > 32768 \/ ~IsPow2(blk) THEN 1 ELSE blk
        fsopt == opt.fmt \cap {"FM_FAT", "FM_FAT32", "FM_EXFAT", "FM_SFD"}
        n_fat == IF opt.n_fat >= 1 /\ opt.n_fat <= 2 THEN opt.n_fat ELSE 1
        n_root == IF opt.n_root >= 1 /\ opt.n_root <= 32768
                     /\ opt.n_root % (ss \div SZDIRE32) = 0
                  THEN opt.n_root ELSE 512
        nb == opt.n_sect * ss
        sz_au == (IF nb <= 16777216 /\ (nb = 0 \/ IsPow2(nb)) THEN nb ELSE 0) \div ss
        sz_buf == len \div ss
        b_vol == IF "FM_SFD" \in fsopt THEN 0 ELSE 63
        p == [sz_vol |-> d.sz_drv - b_vol, b_vol |-> b_vol, sz_blk |-> sz_blk,
              n_fat |-> n_fat, n_root |-> n_root, fsopt |-> fsopt]
        quit(fr) == [fr |-> fr, d |-> d, fsty |-> 0, pau |-> 0, n_clst |-> 0]
    IN
    IF "STA_NOINIT" \in d.stat THEN quit("FR_NOT_READY")
    ELSE IF "STA_PROTECT" \in d.stat THEN quit("FR_WRITE_PROTECTED")
    ELSE IF sz_buf = 0 THEN quit("FR_NOT_ENOUGH_CORE")
    ELSE IF d.sz_drv < b_vol \/ p.sz_vol < 128 THEN quit("FR_MKFS_ABORTED")
    ELSE IF sz_au > 128 THEN quit("FR_INVALID_PARAMETER")
    ELSE IF "FM_FAT" \notin fsopt /\ "FM_FAT32" \notin fsopt THEN quit("FR_INVALID_PARAMETER")
    ELSE CHOOSE r \in {
           IF g.fr # "FR_OK" THEN quit(g.fr) ELSE mkfs_write(d, p, g, sz_buf)
         : g \in {mkfs_clusters(p, sz_au,
                                IF "FM_FAT" \in fsopt THEN FS_FAT16 ELSE FS_FAT32)}} : TRUE

\* check_fs of a sector of the drive
check_fs_at(d, sect) ==
    CHOOSE r \in {
      IF t.res # "RES_OK" THEN [fmt |-> 4, win |-> BlankSect, winsect |-> DISK_ERROR]
      ELSE [fmt |-> vbr_kind(t.buf, FF_MAX_SS), win |-> t.buf, winsect |-> sect]
    : t \in {drive_read(d, sect)}} : TRUE

\* find_volume for a logical drive bound to no partition (LD2PT(vol) = 0):
\* sector 0 as a VBR, else the first entry of the partition table
find_volume(d) ==
    CHOOSE r \in {
      IF c.fmt # 2 THEN c
      ELSE IF c.win.PTE_System # MBR_GPT /\ c.win.PTE_System # 0 /\ c.win.PTE_StLba # 0
      THEN check_fs_at(d, c.win.PTE_StLba)
      ELSE c
    : c \in {check_fs_at(d, 0)}} : TRUE

\* mount_volume of the drive, the FATFS object f not valid: f_mount has
\* cleared fs_type.  The FSINFO sector is read as in 2929-2945.
mount_volume_at(d, f, sid) ==
    IF "STA_NOINIT" \in d.stat THEN [fs |-> f, Fsid |-> sid, res |-> "FR_NOT_READY"]
    ELSE CHOOSE r \in {
           IF c.fmt = 4 THEN [fs |-> f, Fsid |-> sid, res |-> "FR_DISK_ERR"]
           ELSE IF c.fmt >= 2 THEN [fs |-> f, Fsid |-> sid, res |-> "FR_NO_FILESYSTEM"]
           ELSE CHOOSE r2 \in {
                  IF ~g.ok THEN [fs |-> f, Fsid |-> sid, res |-> "FR_NO_FILESYSTEM"]
                  ELSE CHOOSE r3 \in {
                         [fs |-> [f EXCEPT
                                    !.fs_type = g.fmt, !.id = (sid + 1) % 65536,
                                    !.fsize = g.fsize, !.n_fats = g.n_fats,
                                    !.csize = g.csize, !.n_rootdir = g.n_rootdir,
                                    !.n_fatent = g.n_fatent, !.volbase = g.volbase,
                                    !.fatbase = g.fatbase, !.database = g.database,
                                    !.dirbase = g.dirbase,
                                    !.win = IF g.fsinfo /\ t.res = "RES_OK" THEN t.buf
                                            ELSE c.win,
                                    !.winsect = IF g.fsinfo /\ t.res = "RES_OK"
                                                THEN g.volbase + 1 ELSE c.winsect,
                                    !.wflag = 0,
                                    !.fsi_flag = IF g.fsinfo /\ t.res = "RES_OK" THEN 0
                                                 ELSE 128,
                                    !.free_clst =
                                        IF g.fsinfo /\ t.res = "RES_OK"
                                           /\ t.buf.BS_55AA = Sign55AA
                                           /\ t.buf.FSI_LeadSig = "RRaA"
                                           /\ t.buf.FSI_StrucSig = "rrAa"
                                        THEN t.buf.FSI_Free_Count ELSE DISK_ERROR,
                                    !.last_clst =
                                        IF g.fsinfo /\ t.res = "RES_OK"
                                           /\ t.buf.BS_55AA = Sign55AA
                                           /\ t.buf.FSI_LeadSig = "RRaA"
                                           /\ t.buf.FSI_StrucSig = "rrAa"
                                        THEN t.buf.FSI_Nxt_Free ELSE DISK_ERROR],
                          Fsid |-> (sid + 1) % 65536, res |-> "FR_OK"]
                       : t \in {drive_read(d, g.volbase + 1)}} : TRUE
                : g \in {bpb_analyse(c.win, c.winsect, FF_MAX_SS, SZDIRE32)}} : TRUE
         : c \in {find_volume(d)}} : TRUE

\* f_opendir of the root directory and one f_readdir: dir_sdi(dp, 0) finds
\* the first sector of the root directory and dir_read ends at an entry whose
\* first byte is 0.  An entry with another first byte is returned as that
\* byte; f_mkfs writes no such entry.
readdir_root(d, f) ==
    LET clst == IF f.fs_type >= FS_FAT32 THEN f.dirbase ELSE 0
        sect == IF clst = 0 THEN (IF f.n_rootdir = 0 THEN 0 ELSE f.dirbase)
                ELSE IF clst < 2 \/ clst - 2 >= f.n_fatent - 2 THEN 0
                ELSE f.database + f.csize * (clst - 2)
    IN IF sect = 0 THEN [res |-> "FR_INT_ERR", names |-> <<>>]
       ELSE CHOOSE r \in {
              IF t.res # "RES_OK" THEN [res |-> "FR_DISK_ERR", names |-> <<>>]
              ELSE IF t.buf.BS_JmpBoot = 0 THEN [res |-> "FR_OK", names |-> <<>>]
              ELSE [res |-> "FR_OK", names |-> <<t.buf.BS_JmpBoot>>]
            : t \in {drive_read(d, sect)}} : TRUE

\* ---- the scenario: one drive, one set of format options, drawn at the
\* start; the drive is formatted, mounted and its root enumerated ----
MaxOpsMkfs == 3

FM_ANY == {"FM_FAT", "FM_FAT32", "FM_EXFAT"}

\* a sector of what was on the drive before: the VBR of a FAT12 volume
StaleSect ==
    [BlankSect EXCEPT !.BS_JmpBoot = 235, !.BPB_BytsPerSec = FF_MAX_SS,
                     !.BPB_SecPerClus = 1, !.BPB_RsvdSecCnt = 1, !.BPB_NumFATs = 1,
                     !.BPB_RootEntCnt = 16, !.BPB_TotSec16 = 64, !.BPB_FATSz16 = 1,
                     !.BS_55AA = Sign55AA]

DriveSizes == {100, 190, 2880, 4096, 8192, 70000, 140000, 1100000, 16777216, 268435456}

Drives ==
    {[sz_drv |-> sz, sz_blk |-> 8, stat |-> {}, old |-> BlankSect, ws |-> <<>>]
        : sz \in DriveSizes}
    \cup {[sz_drv |-> 2880, sz_blk |-> b, stat |-> s, old |-> o, ws |-> <<>>]
        : b \in {0, 8}, s \in {{}, {"STA_PROTECT"}, {"STA_NOINIT"}},
          o \in {BlankSect, StaleSect}}

MkfsParms ==
    {[fmt |-> f, n_fat |-> nf, align |-> a, n_root |-> 0, n_sect |-> ns]
        : f \in {{"FM_FAT"}, {"FM_FAT32"}, FM_ANY, {"FM_FAT", "FM_SFD"}, FM_ANY \cup {"FM_SFD"}},
          nf \in {1, 2}, a \in {0, 4096}, ns \in {0, 8}}
    \cup {[fmt |-> f, n_fat |-> 0, align |-> a, n_root |-> nr, n_sect |-> ns]
        : f \in {{"FM_SFD"}, {"FM_FAT"}}, a \in {3, 65536}, nr \in {16, 24},
          ns \in {3, 256}}

InitMkfs ==
    /\ disk \in Drives
    /\ fs = [MountedFs EXCEPT !.fs_type = 0, !.win = BlankSect]
    /\ FatFs = TheFs
    /\ Fsid = 1
    /\ Files = BlankFiles
    /\ fil = [h \in Handles |-> BlankFil]
    /\ ret = NoRet
    /\ model \in {NoModel @@ [opt |-> o, len |-> l,
                              mkfs |-> [fr |-> "none", fsty |-> 0, pau |-> 0,
                                        n_clst |-> 0]]
                    : o \in MkfsParms, l \in {256, 2097152}}

\* f_mkfs("", opt, work, len): the FATFS object of the drive is invalidated
\* before anything else is done
F_mkfs(opt, len) ==
    \E r \in {f_mkfs(disk, opt, len)} :
      /\ disk' = r.d
      /\ fs' = IF FatFs # 0 THEN [fs EXCEPT !.fs_type = 0] ELSE fs
      /\ ret' = [NoRet EXCEPT !.op = "f_mkfs", !.res = r.fr]
      /\ model' = [model EXCEPT !.ops = @ + 1,
                                !.mkfs = [fr |-> r.fr, fsty |-> r.fsty, pau |-> r.pau,
                                          n_clst |-> r.n_clst]]
      /\ UNCHANGED <<Files, fil, FatFs, Fsid>>

\* f_mount(&fs, "", 1): the object is registered and mounted at once
F_mount_now ==
    \E r \in {mount_volume_at(disk, [fs EXCEPT !.fs_type = 0], Fsid)} :
      /\ fs' = r.fs
      /\ Fsid' = r.Fsid
      /\ Files' = clear_share(Files)
      /\ ret' = [NoRet EXCEPT !.op = "f_mount", !.res = r.res]
      /\ model' = [model EXCEPT !.ops = @ + 1]
      /\ UNCHANGED <<disk, fil, FatFs>>

\* f_opendir(&dp, "/") and f_readdir(&dp, &fno) on the mounted volume
F_readdir_root ==
    /\ fs.fs_type # 0
    /\ \E r \in {readdir_root(disk, fs)} :
         /\ ret' = [NoRet EXCEPT !.op = "f_readdir", !.res = r.res, !.data = r.names]
         /\ model' = [model EXCEPT !.ops = @ + 1]
         /\ UNCHANGED <<disk, fs, Files, fil, FatFs, Fsid>>

FormatMkfs == model.ops < MaxOpsMkfs /\ F_mkfs(model.opt, model.len)

MountMkfs == model.ops < MaxOpsMkfs /\ F_mount_now

ReaddirMkfs == model.ops < MaxOpsMkfs /\ F_readdir_root

NextMkfs == FormatMkfs \/ MountMkfs \/ ReaddirMkfs

SpecMkfs == InitMkfs /\ [][NextMkfs]_vars

\* C19: whenever f_mkfs has returned FR_OK, a mount of the drive succeeds and
\* derives the FAT sub-type, the cluster size and the number of clusters that
\* f_mkfs chose, and the enumeration of the root directory yields no entry.
C19_MkfsThenMount ==
    model.mkfs.fr = "FR_OK" =>
      /\ ret.op = "f_mount" =>
           /\ ret.res = "FR_OK"
           /\ fs.fs_type = model.mkfs.fsty
           /\ fs.csize = model.mkfs.pau
           /\ fs.n_fatent = model.mkfs.n_clst + 2
      /\ ret.op = "f_readdir" => ret.res = "FR_OK" /\ ret.data = <<>>

\* ---------------------------------------------------------------------------
\* Two mounted volumes and the one table Files.  Each volume has its own
\* mutex and, here, one caller, who holds that mutex for the whole of each of
\* his calls; nothing else guards Files.  A caller advances through chk_share,
\* inc_share and dec_share one access to the table at a time: a loop over the
\* table is one access, every assignment to a field of Files[i] is another.
\* What the calls do to their own volume does not touch Files and is left
\* out; an object is known by the directory position that is its key.
\* The state of caller v is model.thr[v]; fil[v] is his FIL.
\* ---------------------------------------------------------------------------
Vols == {1, 2}

MaxOpsShare == 3

ShareDirs(v) ==
    IF v = 1 THEN {[sclust |-> 0, dptr |-> 0], [sclust |-> 0, dptr |-> SZDIRE]}
    ELSE {[sclust |-> 0, dptr |-> 0]}

IdleThr == [pc |-> "idle", op |-> "none", dp |-> [sclust |-> 0, dptr |-> 0],
            key |-> [sclust |-> 0, dptr |-> 0], acc |-> 0, i |-> 0, n |-> 0,
            res |-> "FR_OK"]

InitShare ==
    /\ disk = EmptyDisk
    /\ fs = MountedFs
    /\ FatFs = <<1, 2>>
    /\ Fsid = 2
    /\ Files = BlankFiles
    /\ fil = [v \in Vols |-> BlankFil]
    /\ ret = NoRet
    /\ model = NoModel @@ [thr |-> [v \in Vols |-> IdleThr]]

\* the call of caller v returns res
ShareReturn(v, F, fp, res) ==
    /\ Files' = F
    /\ fil' = [fil EXCEPT ![v] = fp]
    /\ ret' = [NoRet EXCEPT !.op = model.thr[v].op, !.h = v, !.res = res]
    /\ model' = [model EXCEPT !.thr[v] = [@ EXCEPT !.pc = "idle", !.op = "none"]]
    /\ UNCHANGED <<disk, fs, FatFs, Fsid>>

\* caller v goes on to pc with the locals upd
ShareGoto(v, F, fp, upd) ==
    /\ Files' = F
    /\ fil' = [fil EXCEPT ![v] = fp]
    /\ model' = [model EXCEPT !.thr[v] = upd]
    /\ UNCHANGED <<disk, fs, FatFs, Fsid, ret>>

\* f_open on volume v enters: the object is found on the volume, chk_share is next
BeginOpen(v, dp, acc) ==
    /\ model.thr[v].pc = "idle" /\ fil[v].fs = 0 /\ model.ops < MaxOpsShare
    /\ model' = [model EXCEPT !.ops = @ + 1,
                              !.thr[v] = [@ EXCEPT !.pc = "chk_share", !.op = "f_open",
                                                   !.dp = dp, !.acc = acc]]
    /\ UNCHANGED <<disk, fs, FatFs, Fsid, Files, fil, ret>>

\* f_close on volume v enters: the handle is valid, dec_share(fp->obj.lockid) is next
BeginClose(v) ==
    /\ model.thr[v].pc = "idle" /\ fil[v].fs # 0 /\ model.ops < MaxOpsShare
    /\ model' = [model EXCEPT !.ops = @ + 1,
                              !.thr[v] = [@ EXCEPT !.pc = "dec_share", !.op = "f_close",
                                                   !.i = fil[v].lockid]]
    /\ UNCHANGED <<disk, fs, FatFs, Fsid, Files, fil, ret>>

\* f_unlink on volume v enters: chk_share(&dj, 2) is next
BeginUnlink(v, dp) ==
    /\ model.thr[v].pc = "idle" /\ model.ops < MaxOpsShare
    /\ model' = [model EXCEPT !.ops = @ + 1,
                              !.thr[v] = [@ EXCEPT !.pc = "chk_share", !.op = "f_unlink",
                                                   !.dp = dp, !.acc = 2]]
    /\ UNCHANGED <<disk, fs, FatFs, Fsid, Files, fil, ret>>

\* chk_share, 768-792.  f_unlink returns after it as far as Files goes; a
\* refused f_open leaves through dec_share(fp->obj.lockid) of 3518.
ChkShareStep(v) ==
    LET t == model.thr[v]
        hit == {i \in Slots : Files[i].fs # 0 /\ Files[i].fs = v
                              /\ Files[i].clu = t.dp.sclust /\ Files[i].ofs = t.dp.dptr}
        be == \E i \in Slots : Files[i].fs = 0
        res == IF hit = {}
               THEN IF ~be /\ t.acc # 2 THEN "FR_TOO_MANY_OPEN_FILES" ELSE "FR_OK"
               ELSE IF t.acc # 0 \/ Files[First(hit)].ctr = 256 THEN "FR_LOCKED"
               ELSE "FR_OK"
    IN /\ t.pc = "chk_share"
       /\ IF t.op = "f_unlink" THEN ShareReturn(v, Files, fil[v], res)
          ELSE IF res = "FR_OK" THEN ShareGoto(v, Files, fil[v], [t EXCEPT !.pc = "inc_find"])
          ELSE ShareGoto(v, Files, fil[v],
                         [t EXCEPT !.pc = "dec_share", !.i = fil[v].lockid, !.res = res])

\* inc_share, 812-816: the loop that looks for the object
IncFindStep(v) ==
    LET t == model.thr[v]
        hit == {i \in Slots : Files[i].fs = v /\ Files[i].clu = t.dp.sclust
                              /\ Files[i].ofs = t.dp.dptr}
    IN /\ t.pc = "inc_find"
       /\ IF hit # {}
          THEN ShareGoto(v, Files, fil[v], [t EXCEPT !.pc = "inc_acc", !.i = First(hit)])
          ELSE ShareGoto(v, Files, fil[v], [t EXCEPT !.pc = "inc_free"])

\* inc_share, 819-820: the loop that looks for a free entry; without one
\* inc_share returns 0 and f_open fails with FR_INT_ERR
IncFreeStep(v) ==
    LET t == model.thr[v]
        blank == {i \in Slots : Files[i].fs = 0}
    IN /\ t.pc = "inc_free"
       /\ IF blank # {}
          THEN ShareGoto(v, Files, fil[v], [t EXCEPT !.pc = "inc_fs", !.i = First(blank)])
          ELSE ShareGoto(v, Files, [fil[v] EXCEPT !.lockid = 0],
                         [t EXCEPT !.pc = "dec_share", !.i = 0, !.res = "FR_INT_ERR"])

\* inc_share, 821-824: the four assignments that register the object
IncRegisterStep(v) ==
    LET t == model.thr[v] IN
    /\ t.pc \in {"inc_fs", "inc_clu", "inc_ofs", "inc_ctr"}
    /\ ShareGoto(v,
         [Files EXCEPT ![t.i] =
            IF t.pc = "inc_fs" THEN [@ EXCEPT !.fs = v]
            ELSE IF t.pc = "inc_clu" THEN [@ EXCEPT !.clu = t.dp.sclust]
            ELSE IF t.pc = "inc_ofs" THEN [@ EXCEPT !.ofs = t.dp.dptr]
            ELSE [@ EXCEPT !.ctr = 0]],
         fil[v],
         [t EXCEPT !.pc = IF t.pc = "inc_fs" THEN "inc_clu"
                          ELSE IF t.pc = "inc_clu" THEN "inc_ofs"
                          ELSE IF t.pc = "inc_ofs" THEN "inc_ctr" ELSE "inc_acc"])

\* inc_share, 827-831, and the return of f_open: the FIL becomes valid
IncAccStep(v) ==
    LET t == model.thr[v] IN
    /\ t.pc = "inc_acc"
    /\ IF t.acc >= 1 /\ Files[t.i].ctr # 0
       THEN ShareGoto(v, Files, [fil[v] EXCEPT !.lockid = 0],
                      [t EXCEPT !.pc = "dec_share", !.i = 0, !.res = "FR_INT_ERR"])
       ELSE /\ Files' = [Files EXCEPT ![t.i].ctr = IF t.acc # 0 THEN 256 ELSE @ + 1]
            /\ fil' = [fil EXCEPT ![v] = [@ EXCEPT !.fs = v, !.lockid = t.i,
                                                   !.dir_ptr = t.dp.dptr]]
            /\ ret' = [NoRet EXCEPT !.op = "f_open", !.h = v, !.res = "FR_OK"]
            /\ model' = [model EXCEPT !.thr[v] = [t EXCEPT !.pc = "idle", !.op = "none",
                                                           !.key = t.dp]]
            /\ UNCHANGED <<disk, fs, FatFs, Fsid>>

\* dec_share, 844-847: the counter is read; an index out of range changes nothing
DecShareStep(v) ==
    LET t == model.thr[v]
        n0 == IF Files[t.i].ctr = 256 THEN 0 ELSE Files[t.i].ctr
    IN /\ t.pc = "dec_share"
       /\ IF USub(t.i, 1) < FF_FS_LOCK
          THEN ShareGoto(v, Files, fil[v],
                         [t EXCEPT !.pc = "dec_ctr", !.n = IF n0 > 0 THEN n0 - 1 ELSE n0])
          ELSE ShareReturn(v, Files, fil[v],
                           IF t.op = "f_close" THEN "FR_INT_ERR" ELSE t.res)

\* dec_share, 848-851, and the return of f_close, which invalidates the FIL
DecStoreStep(v) ==
    LET t == model.thr[v]
        done == [fil[v] EXCEPT !.fs = 0]
        res == IF t.op = "f_close" THEN "FR_OK" ELSE t.res
    IN /\ t.pc \in {"dec_ctr", "dec_fs"}
       /\ IF t.pc = "dec_ctr"
          THEN IF t.n = 0
               THEN ShareGoto(v, [Files EXCEPT ![t.i].ctr = t.n], fil[v],
                              [t EXCEPT !.pc = "dec_fs"])
               ELSE ShareReturn(v, [Files EXCEPT ![t.i].ctr = t.n], done, res)
          ELSE ShareReturn(v, [Files EXCEPT ![t.i].fs = 0], done, res)

OpenShare == \E v \in Vols : \E dp \in ShareDirs(v) : \E acc \in {0, 1} : BeginOpen(v, dp, acc)

CloseShare == \E v \in Vols : BeginClose(v)

UnlinkShare == \E dp \in ShareDirs(1) : BeginUnlink(1, dp)

ChkShare == \E v \in Vols : ChkShareStep(v)

IncFindShare == \E v \in Vols : IncFindStep(v)

IncFreeShare == \E v \in Vols : IncFreeStep(v)

IncRegisterShare == \E v \in Vols : IncRegisterStep(v)

IncAccShare == \E v \in Vols : IncAccStep(v)

DecShare == \E v \in Vols : DecShareStep(v)

DecStoreShare == \E v \in Vols : DecStoreStep(v)

NextShare ==
    \/ OpenShare \/ CloseShare \/ UnlinkShare \/ ChkShare \/ IncFindShare
    \/ IncFreeShare \/ IncRegisterShare \/ IncAccShare \/ DecShare \/ DecStoreShare

SpecShare == InitShare /\ [][NextShare]_vars

\* the handle of caller v is open and he is not in the f_close that ends it
Held(v) == fil[v].fs # 0 /\ model.thr[v].op # "f_close"

\* C21: whatever the interleaving of the two callers, every open handle owns
\* an entry of Files that is in use and whose key is the handle's own file,
\* and the handles of different files own different entries.
C21_RegistryConsistent ==
    /\ \A v \in Vols :
         Held(v) =>
           /\ Files[fil[v].lockid].fs = v
           /\ Files[fil[v].lockid].clu = model.thr[v].key.sclust
           /\ Files[fil[v].lockid].ofs = model.thr[v].key.dptr
           /\ Files[fil[v].lockid].ctr # 0
    /\ \A v1 \in Vols : \A v2 \in Vols :
         Held(v1) /\ Held(v2) /\ v1 # v2 => fil[v1].lockid # fil[v2].lockid

\* ---------------------------------------------------------------------------
\* Many readers of one file: every caller has its own FIL and uses it once;
\* the callers open "A" for reading one after another and close in the order
\* in which they opened.
\* ---------------------------------------------------------------------------
MaxReaders == 256

MaxOpsReaders == 2 * MaxReaders

Readers == 1..MaxReaders

InitReaders ==
    /\ disk = TwoFilesDisk
    /\ fs = MountedFs
    /\ FatFs = TheFs
    /\ Fsid = 1
    /\ Files = BlankFiles
    /\ fil = [h \in Readers |-> BlankFil]
    /\ ret = NoRet
    /\ model = [NoModel EXCEPT !.data["A"] = DataAt(1, 0, 3),
                               !.at = [h \in Readers |-> "-"],
                               !.seq = [h \in Readers |-> 0 - 1]]

OpenReaders ==
    /\ model.ops < MaxOpsReaders
    /\ \E h \in Readers :
         /\ fil[h] = BlankFil
         /\ IF h = 1 THEN TRUE ELSE fil[h - 1] # BlankFil
         /\ F_open(h, <<"A">>, {"FA_READ"}, 0, NoFail)

CloseReaders ==
    /\ model.ops < MaxOpsReaders
    /\ \E h \in Readers :
         /\ IF h = 1 THEN TRUE ELSE fil[h - 1].fs = 0
         /\ F_close(h, NoFail)

NextReaders == OpenReaders \/ CloseReaders

SpecReaders == InitReaders /\ [][NextReaders]_vars

\* the entry of Files that holds the file A of the root directory
SlotsOfA == {i \in Slots : Files[i].fs # 0 /\ Files[i].clu = 0 /\ Files[i].ofs = 0}

ReadersOfA == {h \in DOMAIN fil : fil[h].fs # 0}

\* C22: with read opens only, the counter of the file in Files is the number
\* of the read handles that are open on it and is at most 0xFF, never the
\* 0x100 of a writer.
C22_ReadCounter ==
    /\ ReadersOfA = {} => SlotsOfA = {}
    /\ ReadersOfA # {} =>
         /\ SlotsOfA # {}
         /\ \A i \in SlotsOfA : Files[i].ctr = Cardinality(ReadersOfA) /\ Files[i].ctr <= 255

\* ---------------------------------------------------------------------------
\* Two callers open "A" and "B" in every mode and close their FIL objects,
\* also ones that are closed already or were never opened.
\* ---------------------------------------------------------------------------
MaxOpsClose == 6

OpenClose ==
    /\ model.ops < MaxOpsClose
    /\ \E h \in Handles : \E path \in LockPaths :
         \E mode \in {ReadMode, WriteMode, UpdateMode} :
           F_open(h, path, mode, 0, NoFail)

CloseClose ==
    /\ model.ops < MaxOpsClose
    /\ \E h \in Handles :
         \E r \in {f_close(World(NoFail), Files, fil[h])} :
           /\ disk' = r.w.disk
           /\ fs' = r.w.fs
           /\ Files' = r.F
           /\ UNCHANGED <<FatFs, Fsid>>
           /\ fil' = [fil EXCEPT ![h] = r.fp]
           /\ ret' = [NoRet EXCEPT !.op = "f_close", !.h = h, !.res = r.res,
                                   !.io = r.w.io, !.before = <<fil[h].fs>>]
           /\ model' = [model EXCEPT !.ops = @ + 1,
                                     !.at[h] = IF r.fp.fs = 0 THEN "-" ELSE @,
                                     !.seq[h] = IF r.fp.fs = 0 THEN 0 - 1 ELSE @]

NextClose == OpenClose \/ CloseClose

SpecClose == InitLock /\ [][NextClose]_vars

\* the entries of Files for the object the path names
SlotsFor(path) ==
    {i \in Slots : Files[i].fs # 0 /\ SameObj(Files, i, Lookup(disk, fs, path).dp)}

\* Files with one reference of entry i released
Released(F, i) ==
    [F EXCEPT ![i] = IF F[i].ctr = 256 \/ F[i].ctr = 1
                     THEN [@ EXCEPT !.ctr = 0, !.fs = 0]
                     ELSE [@ EXCEPT !.ctr = F[i].ctr - 1]]

\* C23: f_close of an open handle releases one reference of the handle's
\* entry of Files (a writer's or the last reader's close frees the entry, an
\* earlier reader's close decrements its counter); a file that no handle
\* holds open has no entry; f_close of a closed handle returns
\* INVALID_OBJECT and leaves Files as it is.
C23_CloseReleasesOne ==
    /\ [](\A path \in LockPaths : ~OpenOn(path[1]) => SlotsFor(path) = {})
    /\ [][(ret'.op = "f_close" /\ model'.ops # model.ops) =>
            IF fil[ret'.h].fs = 0
            THEN ret'.res = "FR_INVALID_OBJECT" /\ Files' = Files
            ELSE /\ ret'.res = "FR_OK"
                 /\ Files[fil[ret'.h].lockid].ctr # 0
                 /\ Files' = Released(Files, fil[ret'.h].lockid)]_vars

\* ---------------------------------------------------------------------------
\* Seeking: two callers open "A" (one cluster) and "B" (empty) for reading or
\* for update on a volume with three free clusters, write, seek and close.
\* ---------------------------------------------------------------------------
MaxOpsSeek == 4
SeekTo == {0, MaxLen, BCS, BCS + 1, 2 * BCS, 3 * BCS + 1, 4 * BCS + 1}
SeekLens == {1, BCS + 1}

OpenSeek ==
    /\ model.ops < MaxOpsSeek
    /\ \E h \in Handles : \E path \in LockPaths : \E mode \in {ReadMode, UpdateMode} :
         F_open(h, path, mode, 0, NoFail)

WriteSeek ==
    /\ model.ops < MaxOpsSeek
    /\ \E h \in Handles : \E len \in SeekLens : F_write(h, len, 3, NoFail)

LseekSeek ==
    /\ model.ops < MaxOpsSeek
    /\ \E h \in Handles : \E ofs \in SeekTo : F_lseek(h, ofs, NoFail)

CloseSeek ==
    /\ model.ops < MaxOpsSeek
    /\ \E h \in Handles : F_close(h, NoFail)

NextSeek == OpenSeek \/ WriteSeek \/ LseekSeek \/ CloseSeek

SpecSeek == InitLock /\ [][NextSeek]_vars

Clusters == 2..(N_FATENT - 1)

\* the number of free clusters of the volume d, f
FreeClusters(d, f) == Cardinality({c \in Clusters : FatIn(d, f, c) = 0})

\* C24: f_lseek(ofs) on a handle without write access sets fptr to
\* min(ofs, objsize) and changes no FAT entry; on a handle with write access
\* and enough free clusters it sets fptr to ofs, leaves a chain of at least
\* ceil(ofs / (csize * ss)) clusters and raises objsize to ofs if that is
\* larger; with too few free clusters it returns NO_SPACE_LEFT with fptr at
\* the end of the allocated chain and fptr <= objsize.
C24_Seek ==
    [][(ret'.op = "f_lseek" /\ model'.ops # model.ops /\ fil[ret'.h].err = "FR_OK") =>
         LET fp == fil[ret'.h]
             fq == fil'[ret'.h]
             ofs == ret'.arg
             need == CeilDiv(ofs, BCS) - ChainLen(disk, fs, fp.sclust) IN
         IF "FA_WRITE" \notin fp.flag
         THEN /\ fq.fptr = Min(ofs, fp.objsize)
              /\ \A c \in Clusters : FatIn(disk', fs', c) = FatIn(disk, fs, c)
         ELSE IF need <= FreeClusters(disk, fs)
         THEN /\ ret'.res = "FR_OK"
              /\ fq.fptr = ofs
              /\ ChainLen(disk', fs', fq.sclust) >= CeilDiv(ofs, BCS)
              /\ fq.objsize = Max(fp.objsize, ofs)
         ELSE /\ ret'.res = "FR_NO_SPACE_LEFT"
              /\ fq.fptr = ChainLen(disk', fs', fq.sclust) * BCS
              /\ fq.fptr <= fq.objsize]_vars

\* a seek of a writing handle that ran out of clusters after it had
\* extended the chain
C24_Witness ==
    /\ ret.op = "f_lseek"
    /\ ret.res = "FR_NO_SPACE_LEFT"
    /\ "FA_WRITE" \in fil[ret.h].flag
    /\ fil[ret.h].fptr = 3 * BCS
    /\ ret.arg > 3 * BCS

\* ---------------------------------------------------------------------------
\* Numbered short names: long names that share one 8.3 name are registered
\* one after another in a directory of any size. The directory is the set of
\* the short names of its entries, which is all that dir_find compares when
\* dir_register looks for a collision (NS_NOLFN); names are ASCII codes.
\* ---------------------------------------------------------------------------
MaxNames == 101

Tilde == 126
Blank == 32

\* the hexadecimal digit of gen_numname: '0' + v, plus 7 beyond '9'
HexChar(v) == IF 48 + v > 57 THEN 48 + v + 7 ELSE 48 + v

\* the digits ns[i+1..7] that the suffix loop of gen_numname stores, i
\* being the index the next digit goes to
RECURSIVE numname_digits(_, _)
numname_digits(seq, i) ==
    IF i - 1 # 0 /\ seq \div 16 # 0
    THEN numname_digits(seq \div 16, i - 1) \o <<HexChar(seq % 16)>>
    ELSE <<HexChar(seq % 16)>>

\* the numbered SFN in directory form (11 bytes) that gen_numname makes of
\* the SFN src and the long name lfn for the sequence number seq
gen_numname_sfn(src, lfn, seq) ==
    LET s == IF seq > 5 THEN crc_lfn(seq, lfn, 1) ELSE seq
        ns == <<Tilde>> \o numname_digits(s, 7)
        i == 8 - Len(ns)
        gaps == {k \in 0..(i - 1) : src[k + 1] = Blank}
        j == IF gaps = {} THEN i ELSE CHOOSE k \in gaps : \A g \in gaps : k <= g IN
    [p \in 1..11 |->
        IF p <= j \/ p > 8 THEN src[p]
        ELSE IF p - j <= Len(ns) THEN ns[p - j] ELSE Blank]

\* the loop of dir_register over the sequence numbers n .. last - 1, eight
\* turns at a time: it stops at the first number whose name no entry bears
RECURSIVE sfn_loop(_, _, _, _, _)
sfn_loop(dir, sn, lfn, n, last) ==
    IF n >= last THEN [res |-> "FR_DENIED", fn |-> sn, n |-> n]
    ELSE CHOOSE r \in {
           IF free = {} THEN sfn_loop(dir, sn, lfn, Min(n + 8, last), last)
           ELSE CHOOSE r2 \in {
                  [res |-> "FR_OK", fn |-> gen_numname_sfn(sn, lfn, m), n |-> m]
                : m \in {k \in free : \A g \in free : k <= g}} : TRUE
         : free \in {{k \in n..Min(n + 7, last - 1) :
                          gen_numname_sfn(sn, lfn, k) \notin dir}}} : TRUE

\* a loop that tries one sequence number more
register_numbered_one_more(dir, sn, lfn) == sfn_loop(dir, sn, lfn, 1, 101)

\* dir_register of a name with NS_LOSS: the short name it registers
register_numbered(dir, sn, lfn) == sfn_loop(dir, sn, lfn, 1, 100)

\* the long names: "LongName-" and "Report__-" followed by three digits, and
\* "A" followed by three of the characters +,;=[] ; all end in ".txt"
Families == {1, 2, 3}

Illegal == <<43, 44, 59, 61, 91, 93>>

LfnOf(f, k) ==
    (IF f = 1 THEN <<76, 111, 110, 103, 78, 97, 109, 101, 45>>
                   \o <<48 + (k \div 100), 48 + ((k \div 10) % 10), 48 + (k % 10)>>
     ELSE IF f = 2 THEN <<82, 101, 112, 111, 114, 116, 95, 95, 45>>
                   \o <<48 + (k \div 100), 48 + ((k \div 10) % 10), 48 + (k % 10)>>
     ELSE <<65, Illegal[1 + (k \div 36)], Illegal[1 + ((k \div 6) % 6)],
            Illegal[1 + (k % 6)]>>)
    \o <<46, 116, 120, 116>>

\* the character create_name stores in the SFN: '_' for a character that is
\* illegal there, upper case for lower case
SfnChar(c) ==
    IF c \in {Illegal[x] : x \in 1..6} THEN 95
    ELSE IF c >= 97 /\ c <= 122 THEN c - 32 ELSE c

IsUpper(c) == c >= 65 /\ c <= 90
IsLower(c) == c >= 97 /\ c <= 122

\* the index of the last dot of the name
DotAt(name) ==
    CHOOSE k \in 1..Len(name) :
        name[k] = DOT /\ \A x \in (k + 1)..Len(name) : name[x] # DOT

\* create_name for a name of ASCII characters without blanks whose only dot
\* is inside the name: the SFN in directory form, the flags and the LFN
create_name_sfn(name) ==
    LET body == SubSeq(name, 1, DotAt(name) - 1)
        ext == SubSeq(name, DotAt(name) + 1, Len(name))
        bk == SubSeq(body, 1, Min(8, Len(body)))
        ek == SubSeq(ext, 1, Min(3, Len(ext)))
        bad(s) == \E k \in 1..Len(s) : s[k] \in {Illegal[x] : x \in 1..6}
        upper(s) == \E k \in 1..Len(s) : IsUpper(s[k])
        lower(s) == \E k \in 1..Len(s) : IsLower(s[k])
        loss == Len(body) > 8 \/ Len(ext) > 3 \/ bad(bk) \/ bad(ek)
        long == loss \/ (upper(bk) /\ lower(bk)) \/ (upper(ek) /\ lower(ek)) IN
    [fn |-> [p \in 1..11 |->
                IF p <= 8 THEN (IF p <= Len(bk) THEN SfnChar(bk[p]) ELSE Blank)
                ELSE IF p - 8 <= Len(ek) THEN SfnChar(ek[p - 8]) ELSE Blank],
     ns |-> (IF loss THEN {"NS_LOSS"} ELSE {})
            \cup (IF long THEN {"NS_LFN"}
                  ELSE (IF lower(ek) THEN {"NS_EXT"} ELSE {})
                       \cup (IF lower(bk) THEN {"NS_BODY"} ELSE {})),
     lfn |-> name]

SfnOf(lfn) == create_name_sfn(lfn).fn

\* the directory holds SFN entries with the first `pre` numbered names of
\* long name 0 already (as a system without LFN support leaves them)
InitNames ==
    /\ disk = EmptyDisk
    /\ fs = MountedFs
    /\ FatFs = TheFs
    /\ Fsid = 1
    /\ Files = BlankFiles
    /\ fil = [h \in Handles |-> BlankFil]
    /\ ret = NoRet
    /\ \E f \in Families : \E pre \in {0, 98, 99} :
         model = NoModel @@
                 [stem |-> f, made |-> 0,
                  dir |-> {gen_numname_sfn(SfnOf(LfnOf(f, 0)), LfnOf(f, 0), n) :
                              n \in 1..pre}]

RegisterNames ==
    /\ model.made < MaxNames
    /\ \E r \in {register_numbered(model.dir, SfnOf(LfnOf(model.stem, model.made)),
                                   LfnOf(model.stem, model.made))} :
         /\ ret' = [NoRet EXCEPT !.op = "dir_register", !.res = r.res, !.n = r.n,
                                 !.arg = Cardinality(model.dir),
                                 !.path = LfnOf(model.stem, model.made),
                                 !.before = <<model.dir>>, !.data = r.fn]
         /\ model' = [model EXCEPT !.made = @ + 1,
                                   !.dir = IF r.res = "FR_OK" THEN @ \cup {r.fn} ELSE @]
         /\ UNCHANGED <<disk, fs, Files, fil, FatFs, Fsid>>

NextNames == RegisterNames

SpecNames == InitNames /\ [][NextNames]_vars

\* C25: the creation that finds k names of the same 8.3 name in the
\* directory succeeds with a short name none of them bears for k = 0..99
\* and returns DENIED, adding nothing, for k = 100.
C25_HundredCollisions ==
    ret.op = "dir_register" =>
      /\ ret.arg <= 99 =>
           ret.res = "FR_OK" /\ ret.data \notin ret.before[1] /\ ret.data \in model.dir
      /\ ret.arg = 100 => ret.res = "FR_DENIED" /\ model.dir = ret.before[1]

\* the numbered name of sequence number n for the long name just registered
Candidate(n) == gen_numname_sfn(SfnOf(ret.path), ret.path, n)

\* C25 as the code has it: a creation registers the numbered name of the
\* least n in 1..99 that no entry bears (~n for n <= 5, a hash of n and the
\* long name beyond), a name distinct from every short name present, however
\* many names of the same 8.3 name there are; it returns DENIED, adding
\* nothing, only when all 99 numbered names are taken.
C25_NumberedNames ==
    ret.op = "dir_register" =>
      /\ \A n \in 1..(ret.n - 1) : Candidate(n) \in ret.before[1]
      /\ IF ret.n > 99
         THEN ret.res = "FR_DENIED" /\ model.dir = ret.before[1]
         ELSE /\ ret.res = "FR_OK"
              /\ ret.n >= 1
              /\ ret.data = Candidate(ret.n)
              /\ Tilde \in {ret.data[p] : p \in 1..8}
              /\ ret.data \notin ret.before[1]
              /\ model.dir = ret.before[1] \cup {ret.data}
              /\ Cardinality(model.dir) = ret.arg + 1

\* a creation that met 99 collisions and was refused, and one that
\* succeeded with more than 100 names present
C25_Witness ==
    /\ ret.op = "dir_register"
    /\ \/ ret.res = "FR_DENIED" /\ ret.arg = 99
       \/ ret.res = "FR_OK" /\ ret.arg > 100 /\ ret.n > 5

\* ---------------------------------------------------------------------------
\* Names that differ in letter case. The directory is the sequence of its
\* entry groups: the long name of the LFN entries (<<>> without them), the
\* 11 bytes of the SFN entry and its NT flags; names are ASCII codes.
\* ---------------------------------------------------------------------------
\* cmp_lfn over all LFN entries of a group: the names are equal in upper case
cmp_lfn_name(stored, lfn) ==
    /\ Len(stored) = Len(lfn)
    /\ \A k \in 1..Len(lfn) : ff_wtoupper(stored[k]) = ff_wtoupper(lfn[k])

\* a loop that compares the long names only
FoundAt_lfn_only(dir, nm) ==
    {k \in 1..Len(dir) :
        dir[k].lfn # <<>> /\ "NS_NOLFN" \notin nm.ns /\ cmp_lfn_name(dir[k].lfn, nm.lfn)}

\* the entry groups that end the loop of dir_find for the name nm
FoundAt(dir, nm) ==
    {k \in 1..Len(dir) :
        \/ dir[k].lfn # <<>> /\ "NS_NOLFN" \notin nm.ns /\ cmp_lfn_name(dir[k].lfn, nm.lfn)
        \/ "NS_LOSS" \notin nm.ns /\ dir[k].fn = nm.fn}

\* dir_find: the first such group; blk is set when the group has LFN entries
dir_find_name(dir, nm) ==
    IF FoundAt(dir, nm) = {} THEN [res |-> "FR_NO_FILE", k |-> 0, blk |-> FALSE]
    ELSE CHOOSE r \in {
           [res |-> "FR_OK", k |-> k, blk |-> dir[k].lfn # <<>> /\ "NS_NOLFN" \notin nm.ns]
         : k \in {x \in FoundAt(dir, nm) : \A y \in FoundAt(dir, nm) : x <= y}} : TRUE

\* dir_register: the group it appends, with a numbered SFN after a lossy
\* conversion
dir_register_name(dir, nm) ==
    CHOOSE r \in {
      IF n.res # "FR_OK" THEN [res |-> n.res, dir |-> dir]
      ELSE [res |-> "FR_OK",
            dir |-> Append(dir, [lfn |-> IF "NS_LFN" \in nm.ns THEN nm.lfn ELSE <<>>,
                                 fn |-> n.fn,
                                 nt |-> nm.ns \cap {"NS_BODY", "NS_EXT"}])]
    : n \in {IF "NS_LOSS" \in nm.ns
             THEN register_numbered({dir[k].fn : k \in 1..Len(dir)}, nm.fn, nm.lfn)
             ELSE [res |-> "FR_OK", fn |-> nm.fn, n |-> 0]}} : TRUE

\* the part of f_open that looks the name up and creates it
open_name(dir, name, mode) ==
    CHOOSE r \in {
      IF f.res = "FR_OK"
      THEN [res |-> IF "FA_CREATE_NEW" \in mode THEN "FR_EXIST" ELSE "FR_OK", dir |-> dir]
      ELSE dir_register_name(dir, create_name_sfn(name))
    : f \in {dir_find_name(dir, create_name_sfn(name))}} : TRUE

\* the name the SFN entry e gives: its characters without the padding, a
\* dot before the extension, in lower case where the NT flags say so
SfnName(e) ==
    LET low(c, flag) == IF IsUpper(c) /\ flag \in e.nt THEN c + 32 ELSE c
        body == SelectSeq([p \in 1..8 |-> low(e.fn[p], "NS_BODY")], LAMBDA c : c # Blank)
        ext == SelectSeq([p \in 1..3 |-> low(e.fn[8 + p], "NS_EXT")], LAMBDA c : c # Blank)
    IN IF ext = <<>> THEN body ELSE body \o <<DOT>> \o ext

\* f_stat: get_fileinfo takes the long name from the LFN buffer, which
\* holds the name that was looked up, else the name of the SFN entry
stat_name(dir, name) ==
    CHOOSE r \in {
      IF f.res # "FR_OK" THEN [res |-> f.res, fname |-> <<>>]
      ELSE [res |-> "FR_OK", fname |-> IF f.blk THEN name ELSE SfnName(dir[f.k])]
    : f \in {dir_find_name(dir, create_name_sfn(name))}} : TRUE

LongName_txt == <<76, 111, 110, 103, 78, 97, 109, 101, 46, 116, 120, 116>>
longname_txt == <<108, 111, 110, 103, 110, 97, 109, 101, 46, 116, 120, 116>>
LONGNAME_TXT == <<76, 79, 78, 71, 78, 65, 77, 69, 46, 84, 88, 84>>
README_TXT == <<82, 69, 65, 68, 77, 69, 46, 84, 88, 84>>
readme_txt == <<114, 101, 97, 100, 109, 101, 46, 116, 120, 116>>

CaseNames == {LongName_txt, longname_txt, LONGNAME_TXT, README_TXT, readme_txt}
CaseModes == {{"FA_CREATE_NEW", "FA_WRITE"}, {"FA_CREATE_ALWAYS", "FA_WRITE"}}

InitCase ==
    /\ disk = EmptyDisk
    /\ fs = MountedFs
    /\ FatFs = TheFs
    /\ Fsid = 1
    /\ Files = BlankFiles
    /\ fil = [h \in Handles |-> BlankFil]
    /\ ret = NoRet
    /\ model = NoModel @@ [dir |-> <<>>, made |-> <<>>, log |-> <<>>]

CreateCase ==
    \E name \in CaseNames : \E mode \in CaseModes :
      \E r \in {open_name(model.dir, name, mode)} :
        /\ ret' = [NoRet EXCEPT !.op = "f_open", !.res = r.res, !.path = name,
                                !.mode = mode, !.before = <<model.dir>>]
        /\ model' = [model EXCEPT
                       !.dir = r.dir,
                       !.made = IF Len(r.dir) > Len(model.dir) THEN Append(@, name) ELSE @,
                       !.log = IF Len(@) < 3 THEN Append(@, name) ELSE @]
        /\ UNCHANGED <<disk, fs, Files, fil, FatFs, Fsid>>

StatCase ==
    \E name \in CaseNames :
      \E r \in {stat_name(model.dir, name)} :
        /\ ret' = [NoRet EXCEPT !.op = "f_stat", !.res = r.res, !.path = name,
                                !.data = r.fname, !.before = <<model.dir>>]
        /\ UNCHANGED <<model, disk, fs, Files, fil, FatFs, Fsid>>

NextCase == CreateCase \/ StatCase

SpecCase == InitCase /\ [][NextCase]_vars

\* the SFN in directory form of the 8.3 name with that body and extension
Sfn83(body, ext) == [p \in 1..11 |-> IF p <= 8 THEN body[p] ELSE ext[p - 8]]

LONGNA_n(n) == Sfn83(<<76, 79, 78, 71, 78, 65, Tilde, 48 + n>>, <<84, 88, 84>>)

SameUpper(name) ==
    {k \in 1..Len(model.made) : cmp_lfn_name(model.made[k], name)}

RECURSIVE clustinfo_loop(_, _, _)
clustinfo_loop(w, val, count) ==
    CHOOSE r \in {
      IF g.val # get_end_of_cluster(g.w) /\ g.val # 1
      THEN clustinfo_loop(g.w, g.val, count + 1)
      ELSE [w |-> g.w, count |-> count + 1, fclust |-> val]
    : g \in {Do("get_fat", <<w, val>>)}} : TRUE

get_clustinfo(w, fp) ==
    IF fp.sclust # 0 THEN clustinfo_loop(w, fp.sclust, 0)
    ELSE [w |-> w, count |-> 0, fclust |-> 0]

\* the end of one turn of the search loop of f_expand
RECURSIVE expand_loop(_, _, _, _, _, _, _)
expand_next(w, clst, stcl, scl, ncl, tcl, clstbak) ==
    IF clst = stcl THEN [w |-> w, res |-> "FR_DENIED", scl |-> scl]
    ELSE expand_loop(w, IF clst + 1 >= N_FATENT THEN 2 ELSE clst + 1,
                     stcl, scl, ncl, tcl, clstbak)

\* a free cluster clst was found: it is linked to the one found before and,
\* when it is the last one wanted, marked as the end of the chain
expand_link(w, clst, stcl, scl, ncl, tcl, clstbak) ==
    CHOOSE r \in {
      IF p.res # "FR_OK" THEN [w |-> p.w, res |-> p.res, scl |-> scl]
      ELSE IF ncl + 1 = tcl
      THEN CHOOSE r2 \in {
             [w |-> e.w, res |-> e.res, scl |-> IF clstbak # 0 THEN scl ELSE clst]
           : e \in {Do("put_fat", <<p.w, clst, DISK_ERROR>>)}} : TRUE
      ELSE expand_next(p.w, clst, stcl, IF clstbak # 0 THEN scl ELSE clst,
                       ncl + 1, tcl, clst)
    : p \in {IF clstbak # 0 THEN Do("put_fat", <<w, clstbak, clst>>)
             ELSE [w |-> w, res |-> "FR_OK"]}} : TRUE

\* the loop of f_expand that looks for tcl free clusters from clst on
expand_loop(w, clst, stcl, scl, ncl, tcl, clstbak) ==
    CHOOSE r \in {
      IF g.val = 1 THEN [w |-> g.w, res |-> "FR_INT_ERR", scl |-> scl]
      ELSE IF g.val = DISK_ERROR THEN [w |-> g.w, res |-> "FR_DISK_ERR", scl |-> scl]
      ELSE IF g.val = 0 THEN expand_link(g.w, clst, stcl, scl, ncl, tcl, clstbak)
      ELSE expand_next(g.w, clst, stcl, scl, ncl, tcl, clstbak)
    : g \in {Do("get_fat", <<w, clst>>)}} : TRUE

\* the loop of f_expand that removes the chain from clst on after an error
RECURSIVE expand_undo(_, _)
expand_undo(w, clst) ==
    CHOOSE r \in {
      IF g.val = 1 \/ g.val = 0 \/ g.val = DISK_ERROR THEN g.w
      ELSE CHOOSE r2 \in {
             IF p.res # "FR_OK" \/ g.val = get_end_of_cluster(p.w) THEN p.w
             ELSE expand_undo(p.w, g.val)
           : p \in {Do("put_fat", <<g.w, clst, 0>>)}} : TRUE
    : g \in {Do("get_fat", <<w, clst>>)}} : TRUE

\* f_expand after the search: the chain found is attached (opt # 0), or the
\* chain built so far is removed
expand_finish(w, fp, opt, tcl, fclust, s) ==
    IF s.res = "FR_OK"
    THEN IF opt = 0
         THEN [w |-> [s.w EXCEPT !.fs.last_clst = 0], fp |-> fp, res |-> "FR_OK"]
         ELSE CHOOSE r \in {
                IF p.res # "FR_OK" THEN [w |-> p.w, fp |-> fp, res |-> p.res]
                ELSE [w |-> IF p.w.fs.free_clst <= N_FATENT - 2
                            THEN [p.w EXCEPT !.fs.free_clst = @ - tcl,
                                             !.fs.fsi_flag = SetBit(@, 1)]
                            ELSE p.w,
                      fp |-> [fp EXCEPT !.sclust = IF @ = 0 THEN s.scl ELSE @,
                                        !.flag = @ \cup {"FA_MODIFIED"}],
                      res |-> "FR_OK"]
              : p \in {IF fp.sclust = 0
                       THEN [w |-> [s.w EXCEPT !.fs.last_clst = 0], res |-> "FR_OK"]
                       ELSE Do("put_fat", <<[s.w EXCEPT !.fs.last_clst = 0],
                                            fclust, s.scl>>)}} : TRUE
    ELSE CHOOSE r \in {
           [w |-> p.w, fp |-> fp, res |-> p.res]
         : p \in {Do("put_fat", <<expand_undo(s.w, s.scl), fclust, DISK_ERROR>>)}} : TRUE

f_expand(w, fp, offset, fsz, opt) ==
    IF validate(w, fp) # "FR_OK" THEN [w |-> w, fp |-> fp, res |-> validate(w, fp)]
    ELSE IF fp.err # "FR_OK" THEN [w |-> w, fp |-> fp, res |-> fp.err]
    ELSE IF fsz = 0 \/ "FA_WRITE" \notin fp.flag THEN [w |-> w, fp |-> fp, res |-> "FR_DENIED"]
    ELSE CHOOSE r \in {
           IF offset + fsz <= BCS * c.count THEN [w |-> c.w, fp |-> fp, res |-> "FR_OK"]
           ELSE CHOOSE r2 \in {
                  expand_finish(s.w, fp, opt, CeilDiv(offset + fsz - BCS * c.count, BCS),
                                c.fclust, s)
                : s \in {CHOOSE r3 \in {
                           expand_loop(c.w, stcl + 1, stcl, stcl, 0,
                                       CeilDiv(offset + fsz - BCS * c.count, BCS), 0)
                         : stcl \in {IF c.w.fs.last_clst < 2
                                        \/ c.w.fs.last_clst >= N_FATENT
                                     THEN 2 ELSE c.w.fs.last_clst}} : TRUE}} : TRUE
         : c \in {get_clustinfo(w, fp)}} : TRUE

F_expand(h, offset, fsz, opt, fail) ==
    /\ fil[h].fs # 0
    /\ \E r \in {f_expand(World(fail), fil[h], offset, fsz, opt)} :
         /\ disk' = r.w.disk
         /\ fs' = r.w.fs
         /\ fil' = [fil EXCEPT ![h] = r.fp]
         /\ ret' = [NoRet EXCEPT !.op = "f_expand", !.h = h, !.res = r.res, !.io = r.w.io,
                                 !.arg = offset, !.req = fsz, !.n = opt]
         /\ model' = [model EXCEPT !.ops = @ + 1, !.seq[h] = 0 - 1]
         /\ UNCHANGED <<Files, FatFs, Fsid>>

\* A volume on which file "A" holds clusters 2 and 4 and clusters 3 and 5
\* are free; "B" is empty.
ScatteredDisk ==
    [s \in 0..(NSECT - 1) |->
        IF s = VOLBASE THEN BootSect
        ELSE IF s = FATBASE \/ s = FATBASE + FSIZE
        THEN [i \in 0..(SS - 1) |-> <<248, 255, 255, 4, 0, 0, 255, 15>>[i + 1]]
        ELSE IF s = DIRBASE
        THEN [i \in 0..(SS - 1) |-> <<65, AM_ARC, 2, 2 * BCS, 66, AM_ARC, 0, 0>>[i + 1]]
        ELSE IF (s >= DATABASE /\ s < DATABASE + CSIZE)
                \/ (s >= DATABASE + 2 * CSIZE /\ s < DATABASE + 3 * CSIZE)
        THEN [i \in 0..(SS - 1) |-> Pattern(1, i)]
        ELSE ZeroSect]

MaxOpsExpand == 3
ExpandTo == {1, BCS, BCS + 1, 2 * BCS, 3 * BCS, 4 * BCS + 1}

InitExpand ==
    /\ disk \in {TwoFilesDisk, ScatteredDisk}
    /\ fs = MountedFs
    /\ FatFs = TheFs
    /\ Fsid = 1
    /\ Files = BlankFiles
    /\ fil = [h \in Handles |-> BlankFil]
    /\ ret = NoRet
    /\ model = NoModel

OpenExpand ==
    /\ model.ops < MaxOpsExpand
    /\ \E path \in LockPaths : \E mode \in {ReadMode, UpdateMode} :
         F_open(Writer, path, mode, 0, NoFail)

ExpandExpand ==
    /\ model.ops < MaxOpsExpand
    /\ \E offset \in {0, BCS} : \E fsz \in ExpandTo \cup {0} : \E opt \in {0, 1} :
         F_expand(Writer, offset, fsz, opt, NoFail)

CloseExpand ==
    /\ model.ops < MaxOpsExpand
    /\ F_close(Writer, NoFail)

NextExpand == OpenExpand \/ ExpandExpand \/ CloseExpand

SpecExpand == InitExpand /\ [][NextExpand]_vars

\* the clusters that a step allocates: free before, not free after
Allocated == {c \in Clusters : FatIn(disk, fs, c) = 0 /\ FatIn(disk', fs', c) # 0}

\* C27: the clusters that an f_expand returning OK allocates are one run of
\* consecutive cluster numbers c, c+1, ..., c+k-1.
C27_ContiguousRun ==
    [][(ret'.op = "f_expand" /\ model'.ops # model.ops /\ ret'.res = "FR_OK"
         /\ ret'.n = 1 /\ Allocated # {}) =>
         \E c \in Clusters : Allocated = c..(c + Cardinality(Allocated) - 1)]_vars

(*------------------------- writing after a truncation --------------------*)
\* File "B" of three clusters is opened for update, positioned, truncated
\* and written to; the device never fails.
MaxOpsRetrunc == 5
RetruncLens == {2, SS}

OpenRetrunc ==
    /\ model.ops < MaxOpsRetrunc
    /\ F_open(Writer, <<"B">>, UpdateMode, 0, NoFail)

SeekRetrunc ==
    /\ model.ops < MaxOpsRetrunc
    /\ \E ofs \in SeekOfs : F_lseek(Writer, ofs, NoFail)

TruncateRetrunc ==
    /\ model.ops < MaxOpsRetrunc
    /\ \E length \in TruncLens : F_truncate(Writer, length, NoFail)

WriteRetrunc ==
    /\ model.ops < MaxOpsRetrunc
    /\ \E len \in RetruncLens : F_write(Writer, len, 3, NoFail)

SyncRetrunc ==
    /\ model.ops < MaxOpsRetrunc
    /\ F_sync(Writer, NoFail)

CloseRetrunc ==
    /\ model.ops < MaxOpsRetrunc
    /\ F_close(Writer, NoFail)

NextRetrunc ==
    \/ OpenRetrunc \/ SeekRetrunc \/ TruncateRetrunc \/ WriteRetrunc
    \/ SyncRetrunc \/ CloseRetrunc

SpecRetrunc == InitTrunc /\ [][NextRetrunc]_vars

\* what f_lseek(fp, ofs) followed by f_read(fp, n) returns in a state
ReadBack(d, f, fp, ofs, n) ==
    CHOOSE r \in {f_read(s.w, s.fp, n).out
                  : s \in {f_lseek(Quiet(d, f), fp, ofs)}} : TRUE

\* the sectors of cluster c
SectorsOf(c) == clst2sect(c)..(clst2sect(c) + CSIZE - 1)

\* the clusters of "B" at the start: one of them that is free has been
\* freed by a truncation
OwnClusters == ChainOf(NearlyFullDisk, MountedFs, 2)

\* C28: after an f_truncate(L) with L below the file pointer an f_write
\* starts at offset L, its bytes are read back at offset L and lie in a
\* cluster of the chain of the file, and no step through the handle changes
\* a sector of a cluster that a truncation has freed.
C28_WriteAfterTruncate ==
    /\ [][(/\ ret.op = "f_truncate" /\ ret.res = "FR_OK" /\ ret.pos > ret.arg
           /\ ret'.op = "f_write" /\ ret'.h = ret.h /\ ret'.res = "FR_OK")
          => /\ ret'.pos = ret.arg
             /\ ret'.n = ret'.arg
             /\ ReadBack(disk', fs', fil'[ret.h], ret.arg, ret'.n)
                  = DataAt(3, ret.arg, ret'.n)
             /\ fil'[ret.h].clust \in ChainOf(disk', fs', fil'[ret.h].sclust)]_vars
    /\ [][\A c \in OwnClusters :
            (FatIn(disk, fs, c) = 0 /\ FatIn(disk', fs', c) = 0)
            => \A s \in SectorsOf(c) : disk'[s] = disk[s]]_vars

\* C29: an f_open that fails leaves every entry of Files as it was, whatever
\* the FIL object held before the call.
C29_FailedOpenKeepsLocks ==
    [][(ret'.op = "f_open" /\ model'.ops # model.ops /\ ret'.res # "FR_OK")
       => Files' = Files]_vars

\* ---------------------------------------------------------------------------
\* Chains: two callers create, open, write, seek, truncate, expand and close
\* "A" and "B", and "A" is removed or renamed and directory "D" made, on a
\* volume with one or with three free clusters.
\* ---------------------------------------------------------------------------
MaxOpsChains == 4
ChainModes == {UpdateMode, {"FA_CREATE_NEW", "FA_WRITE"}}

InitChains ==
    /\ disk \in {TwoFilesDisk, NearlyFullDisk}
    /\ fs = MountedFs
    /\ FatFs = TheFs
    /\ Fsid = 1
    /\ Files = BlankFiles
    /\ fil = [h \in Handles |-> BlankFil]
    /\ ret = NoRet
    /\ model = NoModel

OpenChains ==
    /\ model.ops < MaxOpsChains
    /\ \E h \in Handles : \E path \in LockPaths : \E mode \in ChainModes :
         F_open(h, path, mode, 0, NoFail)

WriteChains ==
    /\ model.ops < MaxOpsChains
    /\ \E h \in Handles : \E len \in {1, BCS + 1} : F_write(h, len, 3, NoFail)

LseekChains ==
    /\ model.ops < MaxOpsChains
    /\ \E h \in Handles : \E ofs \in {0, BCS + 1} : F_lseek(h, ofs, NoFail)

TruncateChains ==
    /\ model.ops < MaxOpsChains
    /\ \E h \in Handles : \E length \in {0, MaxLen} : F_truncate(h, length, NoFail)

ExpandChains ==
    /\ model.ops < MaxOpsChains
    /\ \E h \in Handles : \E fsz \in {BCS + 1, 4 * BCS} : \E opt \in {0, 1} :
         F_expand(h, 0, fsz, opt, NoFail)

UnlinkChains ==
    /\ model.ops < MaxOpsChains
    /\ F_unlink(<<"A">>, NoFail)

MkdirChains ==
    /\ model.ops < MaxOpsChains
    /\ F_mkdir(<<"D">>, NoFail)

RenameChains ==
    /\ model.ops < MaxOpsChains
    /\ F_rename(<<"A">>, <<"X">>, NoFail)

CloseChains ==
    /\ model.ops < MaxOpsChains
    /\ \E h \in Handles : F_close(h, NoFail)

NextChains ==
    \/ OpenChains \/ WriteChains \/ LseekChains \/ TruncateChains \/ ExpandChains
    \/ UnlinkChains \/ MkdirChains \/ RenameChains \/ CloseChains

SpecChains == InitChains /\ [][NextChains]_vars

\* the handles that hold the file of that name open for writing
WritersOf(name) ==
    {h \in Handles : fil[h].fs # 0 /\ model.at[h] = name /\ "FA_WRITE" \in fil[h].flag}

\* the start clusters of the object of that name in the root directory: the
\* one in the FIL object while the file is open for writing, else the one
\* in its directory entry; none if there is no such object
StartsOf(name) ==
    IF WritersOf(name) # {} THEN {fil[h].sclust : h \in WritersOf(name)}
    ELSE {ld_clust(l.w, l.dp.dptr % SS)
          : l \in {x \in {Lookup(disk, fs, <<name>>)} : x.res = "FR_OK"}}

\* C30: every cluster in the chain of an existing file or directory is in
\* the range 2 .. n_fatent - 1, and its FAT entry is a cluster in that range
\* or the end-of-chain mark, never 0 and never 1.
C30_ChainsWellFormed ==
    \A name \in Names : \A c \in StartsOf(name) \ {0} :
       /\ c \in Clusters
       /\ \A x \in ChainOf(disk, fs, c) :
             FatIn(disk, fs, x) \in Clusters \cup {FAT12_END_OF_CLUSTER}

\* the clusters of the chains of the object of that name
ClustersOf(name) == UNION {ChainOf(disk, fs, c) : c \in StartsOf(name) \ {0}}

\* the name of the object that the step just taken worked on
Target(r, m) ==
    IF r.op \in {"f_open", "f_unlink", "f_mkdir", "f_rename"} THEN r.path[1]
    ELSE m.at[r.h]

\* the clusters that a step sets free: in use before, free after
Freed == {c \in Clusters : FatIn(disk, fs, c) # 0 /\ FatIn(disk', fs', c) = 0}

\* C31: no cluster lies in the chains of two objects, and a step frees only
\* clusters of the chain of the object it works on.  (A cluster that a step
\* hands out was free before by the definition of Allocated.)
C31_NoCrossLinks ==
    /\ [](\A n1, n2 \in Names : n1 # n2 => ClustersOf(n1) \cap ClustersOf(n2) = {})
    /\ [][model'.ops # model.ops => Freed \subseteq ClustersOf(Target(ret', model))]_vars

\* the number of clusters that f_expand(fp, offset, fsz) has to add to the
\* chain of fp
Wanted(fp, offset, fsz) ==
    CeilDiv(Max(offset + fsz - BCS * ChainLen(disk, fs, fp.sclust), 0), BCS)

\* C32: an f_expand that wants more clusters than are free returns an error
\* and leaves every FAT entry as it was.
C32_FailedExpand ==
    [][(/\ ret'.op = "f_expand" /\ model'.ops # model.ops
        /\ Wanted(fil[ret'.h], ret'.arg, ret'.req)
             > FreeClusters(disk, fs))
       => /\ ret'.res # "FR_OK"
          /\ \A c \in Clusters : FatIn(disk', fs', c) = FatIn(disk, fs, c)]_vars

\* ---------------------------------------------------------------------------
\* f_getfree and the cached number of free clusters
\* ---------------------------------------------------------------------------
\* the scan of a FAT12 table by fat_count_free_entries, from cluster clst on
RECURSIVE count_free12(_, _, _)
count_free12(w, clst, nfree) ==
    CHOOSE r \in {
      IF g.val = DISK_ERROR THEN [w |-> g.w, res |-> "FR_DISK_ERR", nfree |-> nfree]
      ELSE IF g.val = 1 THEN [w |-> g.w, res |-> "FR_INT_ERR", nfree |-> nfree]
      ELSE CHOOSE r2 \in {
             IF clst + 1 < N_FATENT THEN count_free12(g.w, clst + 1, n)
             ELSE [w |-> g.w, res |-> "FR_OK", nfree |-> n]
           : n \in {IF g.val = 0 THEN nfree + 1 ELSE nfree}} : TRUE
    : g \in {Do("get_fat", <<w, clst>>)}} : TRUE

\* the scan of a FAT16 or FAT32 table: clst entries are left, the next one
\* is at offset i of sector sect
RECURSIVE count_free_words(_, _, _, _, _)
count_free_words(w, clst, sect, i, nfree) ==
    CHOOSE r \in {
      IF m.res # "FR_OK" THEN [w |-> m.w, res |-> m.res, nfree |-> nfree]
      ELSE CHOOSE r2 \in {
             IF clst = 1 THEN [w |-> m.w, res |-> "FR_OK", nfree |-> n]
             ELSE count_free_words(m.w, clst - 1, IF i = 0 THEN sect + 1 ELSE sect,
                                   (i + (IF w.fs.fs_type = FS_FAT16 THEN 2 ELSE 4)) % SS, n)
           : n \in {IF (IF w.fs.fs_type = FS_FAT16 THEN ld_bytes(m.w.fs.win, i, 2)
                        ELSE ld_bytes(m.w.fs.win, i, 4) % 268435456) = 0
                    THEN nfree + 1 ELSE nfree}} : TRUE
    : m \in {IF i = 0 THEN Do("move_window", <<w, sect>>)
             ELSE [w |-> w, res |-> "FR_OK"]}} : TRUE

fat_count_free_entries(w) ==
    CHOOSE r \in {
      [w |-> [c.w EXCEPT !.fs.free_clst = c.nfree, !.fs.fsi_flag = SetBit(@, 1)],
       res |-> c.res, nclst |-> c.nfree]
    : c \in {IF w.fs.fs_type = FS_FAT12 THEN count_free12(w, 2, 0)
             ELSE count_free_words(w, N_FATENT, FATBASE, 0, 0)}} : TRUE

f_getfree(w, F, reg, sid) ==
    CHOOSE r \in {
      IF m.res # "FR_OK" THEN m @@ [nclst |-> 0]
      ELSE IF m.w.fs.free_clst <= N_FATENT - 2 THEN m @@ [nclst |-> m.w.fs.free_clst]
      ELSE CHOOSE r2 \in {
             [w |-> c.w, F |-> m.F, Fsid |-> m.Fsid, res |-> c.res, nclst |-> c.nclst]
           : c \in {fat_count_free_entries(m.w)}} : TRUE
    : m \in {mount_volume(w, F, reg, sid)}} : TRUE

F_getfree(fail) ==
    \E r \in {f_getfree(World(fail), Files, FatFs, Fsid)} :
      /\ disk' = r.w.disk
      /\ fs' = r.w.fs
      /\ Files' = r.F
      /\ Fsid' = r.Fsid
      /\ ret' = [NoRet EXCEPT !.op = "f_getfree", !.res = r.res, !.io = r.w.io,
                              !.n = r.nclst]
      /\ model' = [model EXCEPT !.ops = @ + 1]
      /\ UNCHANGED <<fil, FatFs>>

\* One caller asks for the number of free clusters and creates, writes,
\* truncates, expands, closes and removes "A" and "B".
MaxOpsFree == 5

GetfreeFree ==
    /\ model.ops < MaxOpsFree
    /\ F_getfree(NoFail)

OpenFree ==
    /\ model.ops < MaxOpsFree
    /\ \E path \in LockPaths : \E mode \in {UpdateMode, {"FA_CREATE_ALWAYS", "FA_WRITE"}} :
         F_open(Writer, path, mode, 0, NoFail)

WriteFree ==
    /\ model.ops < MaxOpsFree
    /\ \E len \in {1, BCS + 1} : F_write(Writer, len, 3, NoFail)

TruncateFree ==
    /\ model.ops < MaxOpsFree
    /\ \E length \in {0, MaxLen} : F_truncate(Writer, length, NoFail)

ExpandFree ==
    /\ model.ops < MaxOpsFree
    /\ \E fsz \in {BCS + 1, 4 * BCS} : \E opt \in {0, 1} :
         F_expand(Writer, 0, fsz, opt, NoFail)

CloseFree ==
    /\ model.ops < MaxOpsFree
    /\ F_close(Writer, NoFail)

UnlinkFree ==
    /\ model.ops < MaxOpsFree
    /\ F_unlink(<<"A">>, NoFail)

NextFree ==
    \/ GetfreeFree \/ OpenFree \/ WriteFree \/ TruncateFree \/ ExpandFree
    \/ CloseFree \/ UnlinkFree

SpecFree == InitChains /\ [][NextFree]_vars

\* C33: a cached number of free clusters that is known is the number of FAT
\* entries of the clusters 2 .. n_fatent - 1 that read 0.
C33_FreeCount ==
    fs.free_clst <= N_FATENT - 2 => fs.free_clst = FreeClusters(disk, fs)

\* C34: when f_close of a modified file returns OK, the sector cache of the
\* handle, if it was dirty, and the size and the start cluster in the
\* directory entry have reached the device.
C34_CloseFlushed ==
    [][(/\ ret'.op = "f_close" /\ model'.ops # model.ops /\ ret'.res = "FR_OK"
        /\ "FA_MODIFIED" \in fil[ret'.h].flag)
       => /\ DirSize(disk', fil[ret'.h]) = fil[ret'.h].objsize
          /\ DirClust(disk', fil[ret'.h]) = fil[ret'.h].sclust
          /\ ("FA_DIRTY" \in fil[ret'.h].flag
                => disk'[fil[ret'.h].sect] = fil[ret'.h].buf)]_vars

\* ---------------------------------------------------------------------------
\* Renaming while the device may fail one of its calls
\* ---------------------------------------------------------------------------
MaxOpsRenameFail == 3
MaxFailRename == 8
RenameFails == {{}} \cup {{k} : k \in 1..MaxFailRename}

RenameRenameFail ==
    /\ model.ops < MaxOpsRenameFail
    /\ \E path_old \in RenamePaths : \E path_new \in RenamePaths \ {path_old} :
         \E fail \in RenameFails : F_rename(path_old, path_new, fail)

MkdirRenameFail ==
    /\ model.ops < MaxOpsRenameFail
    /\ F_mkdir(<<"D">>, NoFail)

UnlinkRenameFail ==
    /\ model.ops < MaxOpsRenameFail
    /\ \E path \in RenamePaths : F_unlink(path, NoFail)

NextRenameFail == RenameRenameFail \/ MkdirRenameFail \/ UnlinkRenameFail

SpecRenameFail == InitCreate /\ [][NextRenameFail]_vars

\* the names of the root directory under which an object is found
Found(d, f) == {n \in Names : Lookup(d, f, <<n>>).res = "FR_OK"}

\* C35: after an f_rename that returns an error the object is found under
\* the old name and not under the new one, and no two entries of the root
\* directory have the same start cluster.
C35_RenameFailure ==
    [][(/\ ret'.op = "f_rename" /\ model'.ops # model.ops /\ ret'.res # "FR_OK"
        /\ ret'.path[1] \in Found(disk, fs) /\ ret'.data[1] \notin Found(disk, fs))
       => /\ ret'.path[1] \in Found(disk', fs')
          /\ ret'.data[1] \notin Found(disk', fs')
          /\ \A n1, n2 \in Found(disk', fs') :
               (n1 # n2 /\ EntryOf(disk', fs', <<n1>>)[DIR_FstClusLO] # 0)
               => EntryOf(disk', fs', <<n1>>)[DIR_FstClusLO]
                    # EntryOf(disk', fs', <<n2>>)[DIR_FstClusLO]]_vars

\* C36: f_truncate on a handle with write access whose file owns no cluster
\* returns OK, changes no FAT entry and latches no error in the handle.
C36_TruncateEmpty ==
    [][(/\ ret'.op = "f_truncate" /\ model'.ops # model.ops
        /\ IsOpen(ret'.h) /\ "FA_WRITE" \in fil[ret'.h].flag
        /\ fil[ret'.h].err = "FR_OK"
        /\ fil[ret'.h].sclust = 0 /\ fil[ret'.h].objsize = 0)
       => /\ ret'.res = "FR_OK"
          /\ fil'[ret'.h].err = "FR_OK"
          /\ \A c \in Clusters : FatIn(disk', fs', c) = FatIn(disk, fs, c)]_vars

\* ---------------------------------------------------------------------------
\* Allocation: create_chain and remove_chain on the FATs of the layouts
\* below, for every allocation hint and with the number of free clusters
\* known or unknown.
\* ---------------------------------------------------------------------------
\* the volume whose FAT entry of cluster c is vals[c]
RECURSIVE fat_fill(_, _, _)
fat_fill(w, vals, c) ==
    IF c >= N_FATENT THEN Do("sync_window", <<w>>).w
    ELSE CHOOSE r \in {fat_fill(p.w, vals, c + 1)
                       : p \in {Do("put_fat", <<w, c, vals[c]>>)}} : TRUE

\* every cluster free or the only cluster of a chain, and chains of two and
\* of three clusters
Layouts ==
    [Clusters -> {0, FAT12_END_OF_CLUSTER}]
      \cup {[c \in Clusters |-> IF c = 2 THEN 4 ELSE IF c = 4 THEN FAT12_END_OF_CLUSTER ELSE v]
            : v \in {0, FAT12_END_OF_CLUSTER}}
      \cup {[c \in Clusters |-> IF c = 5 THEN 3 ELSE IF c = 3 THEN 2
                                ELSE IF c = 2 THEN FAT12_END_OF_CLUSTER ELSE 0]}

MaxOpsAlloc == 2

InitAlloc ==
    /\ \E vals \in Layouts : \E hint \in {0, DISK_ERROR} \cup Clusters :
       \E known \in BOOLEAN :
       \E w \in {fat_fill(Quiet(EmptyDisk, MountedFs), vals, 2)} :
         /\ disk = w.disk
         /\ fs = [w.fs EXCEPT !.last_clst = hint,
                              !.free_clst = IF known THEN FreeClusters(w.disk, w.fs)
                                            ELSE DISK_ERROR]
    /\ FatFs = TheFs
    /\ Fsid = 1
    /\ Files = BlankFiles
    /\ fil = [h \in Handles |-> BlankFil]
    /\ ret = NoRet
    /\ model = NoModel

\* create_chain for a new chain or for a cluster in use
CreateAlloc ==
    /\ model.ops < MaxOpsAlloc
    /\ \E clst \in {0} \cup {c \in Clusters : FatIn(disk, fs, c) # 0} :
       \E r \in {create_chain(World(NoFail), clst)} :
         /\ disk' = r.w.disk
         /\ fs' = r.w.fs
         /\ ret' = [NoRet EXCEPT !.op = "create_chain", !.arg = clst, !.n = r.val,
                                 !.io = r.w.io]
         /\ model' = [model EXCEPT !.ops = @ + 1]
         /\ UNCHANGED <<Files, fil, FatFs, Fsid>>

\* remove_chain of a whole chain from its first cluster on
RemoveAlloc ==
    /\ model.ops < MaxOpsAlloc
    /\ \E clst \in {c \in Clusters : FatIn(disk, fs, c) # 0
                                     /\ \A b \in Clusters : FatIn(disk, fs, b) # c} :
       \E r \in {remove_chain(World(NoFail), clst, 0)} :
         /\ disk' = r.w.disk
         /\ fs' = r.w.fs
         /\ ret' = [NoRet EXCEPT !.op = "remove_chain", !.arg = clst, !.res = r.res,
                                 !.io = r.w.io]
         /\ model' = [model EXCEPT !.ops = @ + 1]
         /\ UNCHANGED <<Files, fil, FatFs, Fsid>>

NextAlloc == CreateAlloc \/ RemoveAlloc

SpecAlloc == InitAlloc /\ [][NextAlloc]_vars

\* the free clusters of the state
FreeSet == {c \in Clusters : FatIn(disk, fs, c) = 0}

\* the place of cluster c in the cyclic order that starts after cluster s
Rank(c, s) == IF c > s THEN c - s ELSE c + N_FATENT - s

\* the first free cluster in the cyclic order s + 1, ..., n_fatent - 1, 2, ..., s
FirstFree(s) == CHOOSE c \in FreeSet : \A b \in FreeSet : Rank(c, s) <= Rank(b, s)

\* C37: create_chain for a new chain returns the first free cluster after
\* the hint last_clst in cyclic order (from 2 on without a valid hint), for
\* the last cluster prev of a chain it returns prev + 1 if that is free, it
\* returns 0 only if no cluster is free, and on success it sets FAT[new] to
\* the end-of-chain mark, FAT[prev] to new, last_clst to new and changes no
\* other FAT entry.
C37_CreateChain ==
    [][(/\ ret'.op = "create_chain" /\ model'.ops # model.ops
        /\ (ret'.arg = 0 \/ FatIn(disk, fs, ret'.arg) = FAT12_END_OF_CLUSTER))
       => /\ (ret'.arg = 0 /\ FreeSet # {})
               => ret'.n = FirstFree(IF fs.last_clst \in Clusters THEN fs.last_clst ELSE 1)
          /\ (ret'.arg # 0 /\ (ret'.arg + 1) \in FreeSet) => ret'.n = ret'.arg + 1
          /\ (FreeSet = {}) <=> (ret'.n = 0)
          /\ ret'.n # 0
               => /\ ret'.n \in FreeSet
                  /\ FatIn(disk', fs', ret'.n) = FAT12_END_OF_CLUSTER
                  /\ ret'.arg # 0 => FatIn(disk', fs', ret'.arg) = ret'.n
                  /\ \A c \in Clusters \ {ret'.n, ret'.arg} :
                       FatIn(disk', fs', c) = FatIn(disk, fs, c)
                  /\ fs'.last_clst = ret'.n]_vars

\* the chain that ends in cluster 5 was stretched: the search wrapped
\* around and took cluster 3, the first free one after the hint
C37_Witness ==
    /\ ret.op = "create_chain" /\ ret.arg = 5 /\ ret.n = 3
    /\ FatIn(disk, fs, 5) = 3 /\ FatIn(disk, fs, 3) = FAT12_END_OF_CLUSTER
    /\ FatIn(disk, fs, 2) # 0
    /\ fs.last_clst = 3

\* ---------------------------------------------------------------------------
\* A cyclic chain: the FAT links cluster 2 to 3 and 3 back to 2, and the
\* directory entry of "A" (start cluster 2) gives the size of four clusters.
\* One caller opens "A", seeks, reads and calls f_getclustinfo, whose loop
\* (get_clustinfo) is taken one turn at a time.  The well-formed volume is
\* there for comparison.
\* ---------------------------------------------------------------------------
CyclicDisk ==
    [s \in 0..(NSECT - 1) |->
        IF s = VOLBASE THEN BootSect
        ELSE IF s = FATBASE \/ s = FATBASE + FSIZE
        THEN [i \in 0..(SS - 1) |-> <<248, 255, 255, 3, 32, 0, 0, 0>>[i + 1]]
        ELSE IF s = DIRBASE
        THEN [i \in 0..(SS - 1) |-> <<65, AM_ARC, 2, 4 * BCS, 0, 0, 0, 0>>[i + 1]]
        ELSE IF s >= DATABASE /\ s < DATABASE + 2 * CSIZE
        THEN [i \in 0..(SS - 1) |-> Pattern(1, (s - DATABASE) * SS + i)]
        ELSE ZeroSect]

MaxOpsCycle == 3
UINT_BITS == 4          \* the width of the counter of get_clustinfo, scaled
UINT_MAX == 2 ^ UINT_BITS - 1

InitCycle ==
    /\ disk \in {CyclicDisk, TwoFilesDisk}
    /\ fs = MountedFs
    /\ FatFs = TheFs
    /\ Fsid = 1
    /\ Files = BlankFiles
    /\ fil = [h \in Handles |-> BlankFil]
    /\ ret = NoRet
    /\ model = NoModel @@ [pc |-> "idle", val |-> 0, count |-> 0, fsclust |-> 0]

OpenCycle ==
    /\ model.ops < MaxOpsCycle /\ model.pc = "idle"
    /\ F_open(Writer, <<"A">>, UpdateMode, 0, NoFail)

LseekCycle ==
    /\ model.ops < MaxOpsCycle /\ model.pc = "idle"
    /\ \E ofs \in {0, BCS + 1, 3 * BCS + 1} : F_lseek(Writer, ofs, NoFail)

ReadCycle ==
    /\ model.ops < MaxOpsCycle /\ model.pc = "idle"
    /\ \E len \in {MaxLen, 3 * BCS} : F_read(Writer, len, NoFail)

\* f_getclustinfo up to the loop of get_clustinfo
GetclustinfoCycle ==
    /\ model.ops < MaxOpsCycle /\ model.pc = "idle"
    /\ IF validate(World(NoFail), fil[Writer]) # "FR_OK"
       THEN /\ ret' = [NoRet EXCEPT !.op = "f_getclustinfo", !.h = Writer,
                                    !.res = validate(World(NoFail), fil[Writer])]
            /\ model' = [model EXCEPT !.ops = @ + 1]
       ELSE IF fil[Writer].sclust = 0
       THEN /\ ret' = [NoRet EXCEPT !.op = "f_getclustinfo", !.h = Writer]
            /\ model' = [model EXCEPT !.ops = @ + 1]
       ELSE /\ ret' = [NoRet EXCEPT !.op = "get_clustinfo", !.h = Writer]
            /\ model' = [model EXCEPT !.ops = @ + 1, !.pc = "loop",
                                      !.val = fil[Writer].sclust, !.count = 0]
    /\ UNCHANGED <<disk, fs, Files, fil, FatFs, Fsid>>

\* one turn of the loop of get_clustinfo, and the return of f_getclustinfo
\* when the loop ends
TurnCycle ==
    /\ model.pc = "loop"
    /\ \E g \in {get_fat(World(NoFail), model.val)} :
       \E count \in {(model.count + 1) % (UINT_MAX + 1)} :
         /\ disk' = g.w.disk
         /\ fs' = g.w.fs
         /\ IF g.val # get_end_of_cluster(g.w) /\ g.val # 1
            THEN /\ model' = [model EXCEPT !.fsclust = model.val, !.val = g.val,
                                           !.count = count]
                 /\ ret' = ret
            ELSE /\ model' = [model EXCEPT !.fsclust = model.val, !.val = g.val,
                                           !.count = count, !.pc = "idle"]
                 /\ ret' = [NoRet EXCEPT !.op = "f_getclustinfo", !.h = Writer,
                                         !.n = count, !.arg = model.val,
                                         !.res = IF count = UINT_MAX THEN "FR_DENIED"
                                                 ELSE "FR_OK"]
    /\ UNCHANGED <<Files, fil, FatFs, Fsid>>

NextCycle == OpenCycle \/ LseekCycle \/ ReadCycle \/ GetclustinfoCycle \/ TurnCycle

SpecCycle == InitCycle /\ [][NextCycle]_vars /\ WF_vars(TurnCycle)

\* C38: a walk along the cyclic chain ends: f_getclustinfo on "A" returns,
\* and it returns INT_ERR.
C38_CycleDetected ==
    (model.pc = "loop") ~> (ret.op = "f_getclustinfo" /\ ret.res = "FR_INT_ERR")

\* ---------------------------------------------------------------------------
\* The FAT12 table: put_fat and get_fat for every cluster of the volume and
\* the 12-bit values below, on the FATs of Layouts.  The cell of cluster 5 is
\* the last byte of the first FAT sector and the first byte of the second.
\* ---------------------------------------------------------------------------
MaxOpsFat12 == 2

Values12 == {0, 1, 255, 256, 1365, 2748, FAT12_END_OF_CLUSTER}

InitFat12 ==
    /\ \E vals \in Layouts :
       \E w \in {fat_fill(Quiet(EmptyDisk, MountedFs), vals, 2)} :
         /\ disk = w.disk
         /\ fs = w.fs
    /\ FatFs = TheFs
    /\ Fsid = 1
    /\ Files = BlankFiles
    /\ fil = [h \in Handles |-> BlankFil]
    /\ ret = NoRet
    /\ model = NoModel

PutFat12 ==
    /\ model.ops < MaxOpsFat12
    /\ \E clst \in Clusters : \E val \in Values12 :
       \E r \in {put_fat(World(NoFail), clst, val)} :
         /\ disk' = r.w.disk
         /\ fs' = r.w.fs
         /\ ret' = [NoRet EXCEPT !.op = "put_fat", !.arg = clst, !.n = val,
                                 !.res = r.res, !.io = r.w.io]
         /\ model' = [model EXCEPT !.ops = @ + 1]
         /\ UNCHANGED <<Files, fil, FatFs, Fsid>>

GetFat12 ==
    /\ model.ops < MaxOpsFat12
    /\ \E clst \in Clusters :
       \E r \in {get_fat(World(NoFail), clst)} :
         /\ disk' = r.w.disk
         /\ fs' = r.w.fs
         /\ ret' = [NoRet EXCEPT !.op = "get_fat", !.arg = clst, !.n = r.val,
                                 !.io = r.w.io]
         /\ model' = [model EXCEPT !.ops = @ + 1]
         /\ UNCHANGED <<Files, fil, FatFs, Fsid>>

NextFat12 == PutFat12 \/ GetFat12

SpecFat12 == InitFat12 /\ [][NextFat12]_vars

\* what get_fat returns for cluster c on volume d with filesystem object f
Entry(d, f, c) == get_fat(Quiet(d, f), c).val

\* C39: on the FAT12 volume, after put_fat(c, v) get_fat(c) returns v and
\* get_fat returns for every other cluster what it returned before, also for
\* the cluster whose cell lies in two FAT sectors.
C39_PutGet ==
    [][(ret'.op = "put_fat" /\ model'.ops # model.ops /\ ret'.res = "FR_OK")
       => /\ Entry(disk', fs', ret'.arg) = ret'.n
          /\ \A c \in Clusters \ {ret'.arg} :
               Entry(disk', fs', c) = Entry(disk, fs, c)]_vars

\* cluster 5, whose cell straddles the two FAT sectors, is written after its
\* neighbour 4, which shares a byte with it
C39_Witness ==
    /\ ret.op = "put_fat" /\ ret.arg = 5 /\ ret.n = 2748 /\ ret.res = "FR_OK"
    /\ (5 + 5 \div 2) \div SS # (5 + 5 \div 2 + 1) \div SS
    /\ Entry(disk, fs, 5) = 2748
    /\ Entry(disk, fs, 4) = 1365

\* ---------------------------------------------------------------------------
\* Fast seek (FF_USE_FASTSEEK): the cluster link map table of the caller,
\* f_lseek(fp, CREATE_LINKMAP) that fills it, clmt_clust that reads it and
\* f_lseek with fp->cltbl set.  The table is an array of DWORD whose item 0
\* is its size in items.
\* ---------------------------------------------------------------------------
RECURSIVE clmt_walk_keep(_, _, _)
\* clmt_walk without 'cl -= ncl'
clmt_walk_keep(tbl, i, cl) ==
    IF tbl[i] = 0 THEN 0
    ELSE IF cl < tbl[i] THEN cl + tbl[i + 1]
    ELSE clmt_walk_keep(tbl, i + 2, cl)

RECURSIVE clmt_walk(_, _, _)
\* the loop of clmt_clust from item i of the table, cl clusters to go
clmt_walk(tbl, i, cl) ==
    IF tbl[i] = 0 THEN 0
    ELSE IF cl < tbl[i] THEN cl + tbl[i + 1]
    ELSE clmt_walk(tbl, i + 2, cl - tbl[i])

clmt_clust(tbl, ofs) == clmt_walk(tbl, 1, (ofs \div SS) \div CSIZE)

RECURSIVE linkmap_fragment(_, _, _)
\* one fragment: follow the chain from cl while the next cluster is cl + 1
linkmap_fragment(w, cl, ncl) ==
    CHOOSE r \in {
      IF g.val <= 1 THEN [w |-> g.w, res |-> "FR_INT_ERR", cl |-> g.val, ncl |-> ncl + 1]
      ELSE IF g.val = DISK_ERROR
      THEN [w |-> g.w, res |-> "FR_DISK_ERR", cl |-> g.val, ncl |-> ncl + 1]
      ELSE IF g.val = cl + 1 THEN linkmap_fragment(g.w, g.val, ncl + 1)
      ELSE [w |-> g.w, res |-> "FR_OK", cl |-> g.val, ncl |-> ncl + 1]
    : g \in {Do("get_fat", <<w, cl>>)}} : TRUE

RECURSIVE linkmap_chain(_, _, _, _, _)
\* the fragments of the chain from cl on; pos is the next item to store,
\* ulen the number of items required so far
linkmap_chain(w, cl, tbl, pos, ulen) ==
    CHOOSE r \in {
      IF f.res # "FR_OK" THEN [w |-> f.w, res |-> f.res, tbl |-> tbl, pos |-> pos,
                               ulen |-> ulen + 2]
      ELSE IF f.cl < N_FATENT
      THEN linkmap_chain(f.w, f.cl,
                         IF ulen + 2 <= tbl[0]
                         THEN [tbl EXCEPT ![pos] = f.ncl, ![pos + 1] = cl] ELSE tbl,
                         IF ulen + 2 <= tbl[0] THEN pos + 2 ELSE pos, ulen + 2)
      ELSE [w |-> f.w, res |-> "FR_OK",
            tbl |-> IF ulen + 2 <= tbl[0]
                    THEN [tbl EXCEPT ![pos] = f.ncl, ![pos + 1] = cl] ELSE tbl,
            pos |-> IF ulen + 2 <= tbl[0] THEN pos + 2 ELSE pos, ulen |-> ulen + 2]
    : f \in {linkmap_fragment(w, cl, 0)}} : TRUE

\* f_lseek(fp, CREATE_LINKMAP) with fp->cltbl = tbl
create_linkmap(w, fp, tbl) ==
    CHOOSE r \in {
      IF c.res # "FR_OK" THEN ABORT(c.w, fp, c.res) @@ [tbl |-> c.tbl]
      ELSE IF c.ulen <= tbl[0]
      THEN [w |-> c.w, fp |-> fp, res |-> "FR_OK",
            tbl |-> [c.tbl EXCEPT ![0] = c.ulen, ![c.pos] = 0]]
      ELSE [w |-> c.w, fp |-> fp, res |-> "FR_NOT_ENOUGH_CORE",
            tbl |-> [c.tbl EXCEPT ![0] = c.ulen]]
    : c \in {IF fp.sclust # 0 THEN linkmap_chain(w, fp.sclust, tbl, 1, 2)
             ELSE [w |-> w, res |-> "FR_OK", tbl |-> tbl, pos |-> 1, ulen |-> 2]}} : TRUE

\* the sector of the byte before offset ofs in cluster cl
fast_sect(cl, ofs) == clst2sect(cl) + (((ofs - 1) \div SS) % CSIZE)

\* the fast seek branch of f_lseek, the offset being clipped
fast_seek_to(w, fp, tbl, ofs) ==
    IF ofs = 0 THEN [w |-> w, fp |-> [fp EXCEPT !.fptr = 0], res |-> "FR_OK"]
    ELSE CHOOSE r \in {
           IF clst2sect(cl) = 0
           THEN ABORT(w, [fp EXCEPT !.fptr = ofs, !.clust = cl], "FR_INT_ERR")
           ELSE IF ofs % SS # 0
                   /\ fast_sect(cl, ofs) # fp.sect
           THEN CHOOSE r2 \in {
                  IF ~wb.ok
                  THEN ABORT(wb.w, [fp EXCEPT !.fptr = ofs, !.clust = cl], "FR_DISK_ERR")
                  ELSE CHOOSE r3 \in {
                         IF ~rd.ok
                         THEN ABORT(rd.w, [fp EXCEPT !.fptr = ofs, !.clust = cl,
                                                     !.flag = @ \ {"FA_DIRTY"}],
                                    "FR_DISK_ERR")
                         ELSE [w |-> rd.w, res |-> "FR_OK",
                               fp |-> [fp EXCEPT
                                         !.fptr = ofs, !.clust = cl,
                                         !.flag = @ \ {"FA_DIRTY"}, !.buf = rd.buf,
                                         !.sect = fast_sect(cl, ofs)]]
                       : rd \in {disk_read(wb.w, fp.buf,
                                           fast_sect(cl, ofs))}}
                       : TRUE
                : wb \in {IF "FA_DIRTY" \in fp.flag
                          THEN disk_write(w, <<fp.buf>>, fp.sect)
                          ELSE [w |-> w, ok |-> TRUE]}} : TRUE
           ELSE [w |-> w, res |-> "FR_OK", fp |-> [fp EXCEPT !.fptr = ofs, !.clust = cl]]
         : cl \in {clmt_clust(tbl, ofs - 1)}} : TRUE

\* f_lseek(fp, ofs), ofs # CREATE_LINKMAP, with fp->cltbl = tbl
f_lseek_fast(w, fp, tbl, ofs) ==
    IF validate(w, fp) # "FR_OK" THEN [w |-> w, fp |-> fp, res |-> validate(w, fp)]
    ELSE IF fp.err # "FR_OK" THEN [w |-> w, fp |-> fp, res |-> fp.err]
    ELSE fast_seek_to(w, fp, tbl, Min(ofs, fp.objsize))

\* volumes with one file "A" whose chain is the sequence ch
Fragmented == {<<2>>, <<2, 3>>, <<2, 4>>, <<3, 2>>, <<2, 3, 5>>, <<2, 3, 4, 5>>,
               <<2, 4, 3, 5>>, <<5, 4, 3, 2>>, <<4, 5, 2, 3>>}

ChainVals(ch) ==
    [c \in Clusters |->
       IF \E i \in 1..(Len(ch) - 1) : ch[i] = c
       THEN ch[(CHOOSE i \in 1..(Len(ch) - 1) : ch[i] = c) + 1]
       ELSE IF ch[Len(ch)] = c THEN FAT12_END_OF_CLUSTER ELSE 0]

FragmentedDisk(ch, size) ==
    [fat_fill(Quiet(EmptyDisk, MountedFs), ChainVals(ch), 2).disk EXCEPT
       ![DIRBASE] = [i \in 0..(SS - 1) |->
                       <<65, AM_ARC, ch[1], size, 0, 0, 0, 0>>[i + 1]]]

MaxOpsFast == 4
MaxTbl == 12            \* items of the caller's array

InitFast ==
    /\ \E ch \in Fragmented : \E cut \in {0, MaxLen} :
         disk = FragmentedDisk(ch, Len(ch) * BCS - cut)
    /\ fs = MountedFs
    /\ FatFs = TheFs
    /\ Fsid = 1
    /\ Files = BlankFiles
    /\ fil = [h \in Handles |-> BlankFil]
    /\ ret = NoRet
    /\ model = NoModel @@ [cltbl |-> [i \in 0..(MaxTbl - 1) |-> 0], fast |-> FALSE]

OpenFast ==
    /\ model.ops < MaxOpsFast
    /\ \E mode \in {ReadMode, UpdateMode} : F_open(Writer, <<"A">>, mode, 0, NoFail)

SeekOffsets == {0, 1, SS, BCS, BCS + 1, 2 * BCS, 2 * BCS + SS + 1, 3 * BCS,
                3 * BCS + 1, 4 * BCS, 4 * BCS + 1}

\* normal seek, fp->cltbl being null
LseekFast ==
    /\ model.ops < MaxOpsFast /\ ~model.fast
    /\ \E ofs \in {o \in SeekOffsets : o <= fil[Writer].objsize} :
         F_lseek(Writer, ofs, NoFail)

\* the caller sets fp->cltbl to a table of tlen items and has it filled; it
\* goes on with the table if that succeeded and sets fp->cltbl to null if not
LinkmapFast ==
    /\ model.ops < MaxOpsFast /\ ~model.fast
    /\ fil[Writer].fs # 0
    /\ \E tlen \in {4, MaxTbl} :
       \E r \in {IF validate(World(NoFail), fil[Writer]) # "FR_OK"
                 THEN [w |-> World(NoFail), fp |-> fil[Writer],
                       res |-> validate(World(NoFail), fil[Writer]), tbl |-> model.cltbl]
                 ELSE create_linkmap(World(NoFail), fil[Writer],
                                     [i \in 0..(MaxTbl - 1) |-> IF i = 0 THEN tlen ELSE 0])} :
         /\ disk' = r.w.disk
         /\ fs' = r.w.fs
         /\ fil' = [fil EXCEPT ![Writer] = r.fp]
         /\ ret' = [NoRet EXCEPT !.op = "CREATE_LINKMAP", !.h = Writer, !.res = r.res,
                                 !.arg = tlen, !.pos = fil[Writer].fptr]
         /\ model' = [model EXCEPT !.ops = @ + 1,
                                   !.cltbl = r.tbl, !.fast = (r.res = "FR_OK")]
         /\ UNCHANGED <<Files, FatFs, Fsid>>

\* seek with fp->cltbl set
FastSeekFast ==
    /\ model.ops < MaxOpsFast /\ model.fast
    /\ \E ofs \in SeekOffsets :
       \E r \in {f_lseek_fast(World(NoFail), fil[Writer], model.cltbl, ofs)} :
         /\ disk' = r.w.disk
         /\ fs' = r.w.fs
         /\ fil' = [fil EXCEPT ![Writer] = r.fp]
         /\ ret' = [NoRet EXCEPT !.op = "fast seek", !.h = Writer, !.res = r.res,
                                 !.arg = ofs, !.pos = fil[Writer].fptr]
         /\ model' = [model EXCEPT !.ops = @ + 1]
         /\ UNCHANGED <<Files, FatFs, Fsid>>

NextFast == OpenFast \/ LseekFast \/ LinkmapFast \/ FastSeekFast

SpecFast == InitFast /\ [][NextFast]_vars

\* C40: with the table filled by CREATE_LINKMAP, a fast seek to an offset
\* 0 < ofs <= objsize leaves fptr and clust as the normal seek to the same
\* offset from the same state of the file object leaves them.
C40_FastSeek ==
    [][(ret'.op = "fast seek" /\ model'.ops # model.ops
        /\ ret'.arg > 0 /\ ret'.arg <= fil[Writer].objsize)
       => /\ ret'.res = "FR_OK"
          /\ fil'[Writer].fptr = f_lseek(Quiet(disk, fs), fil[Writer], ret'.arg).fp.fptr
          /\ fil'[Writer].clust = f_lseek(Quiet(disk, fs), fil[Writer], ret'.arg).fp.clust
          /\ fil'[Writer].fptr = ret'.arg
          /\ fil'[Writer].clust = ClusterAt(disk, fs, fil[Writer].sclust,
                                            (ret'.arg - 1) \div BCS)]_vars

\* a fast seek into the third fragment of the chain 2 -> 4 -> 3 -> 5
C40_Witness ==
    /\ ret.op = "fast seek" /\ ret.res = "FR_OK" /\ ret.arg = 2 * BCS + SS + 1
    /\ FatIn(disk, fs, 2) = 4 /\ FatIn(disk, fs, 4) = 3
    /\ model.cltbl[0] = 10
    /\ fil[Writer].fptr = 2 * BCS + SS + 1
    /\ fil[Writer].clust = 3

====
